---- MODULE Spec2Model ----
(***************************************************************************)
(* Model of the PMW3901 / PAA5100 optical-flow sensor driver               *)
(* (src/pmw3901/__init__.py).                                              *)
(*                                                                         *)
(* The driver is a single-threaded program.  Its state is the program      *)
(* counter pc (a label naming the statement about to run), the stack of    *)
(* return labels, the parameters and locals of the running methods, the    *)
(* software chip-select line, and a monitor of the SPI bus (the last       *)
(* transaction put on the wire and how many the current call has issued).  *)
(* One action models one statement (or one straight-line group of          *)
(* statements) of the source.  The sensor is the environment: every        *)
(* spi_dev.xfer2 either raises OSError or returns bytes drawn from a small *)
(* set that depends on the register addressed.                             *)
(*                                                                         *)
(* Time is counted in milliseconds.  time.time() is the variable now,      *)
(* counted from the latest reading the running call stored in t_start; it  *)
(* is tracked only from then on (t_start >= 0) and saturates one tick past *)
(* the deadline, where the comparison can no longer tell values apart.     *)
(*                                                                         *)
(* The list raw_data of frame_capture always has RAW_DATA_LEN entries; the *)
(* variable raw_data holds its non-zero entries only, as a function from   *)
(* their (0-based) indices.                                                *)
(***************************************************************************)
EXTENDS Integers, Sequences, FiniteSets, TLC

\* ------------------------------------------------------------------------
\* Program constants (src/pmw3901/__init__.py:11-24, 365)
\* ------------------------------------------------------------------------
WAIT == -1
REG_ID == 0
REG_DATA_READY == 2
REG_MOTION_BURST == 22
REG_POWER_UP_RESET == 58
REG_ORIENTATION == 91
REG_RAWDATA_GRAB == 88
REG_RAWDATA_GRAB_STATUS == 89
RAW_DATA_LEN == 1225

\* ------------------------------------------------------------------------
\* Bounds of the model
\* ------------------------------------------------------------------------
\* largest timeout argument (in ms) a caller passes to a deadline-bearing call
MaxTimeout == 2
\* a sleep of d ms returns after d .. d + MaxOversleep ms
MaxOversleep == 1
\* one bus transfer takes 0 .. MaxXferTime ms
MaxXferTime == 1
\* the timeout argument (in ms) a caller passes to frame_capture
CaptureTimeout == 1
\* pixels of a captured frame for which the sensor answers freely; for the
\* later pixels it sends a fixed lower fragment (or nothing useful)
VariedPixels == 1

\* ------------------------------------------------------------------------
\* Integer bit operations of Python on non-negative integers
\* ------------------------------------------------------------------------
RECURSIVE BitAnd(_, _)
BitAnd(a, b) ==
    IF a = 0 \/ b = 0 THEN 0
    ELSE (a % 2) * (b % 2) + 2 * BitAnd(a \div 2, b \div 2)

BitOr(a, b) == a + b - BitAnd(a, b)

\* a & ~m
BitClear(a, m) == a - BitAnd(a, m)

Shl(a, n) == a * (2 ^ n)

Shr(a, n) == a \div (2 ^ n)

Min(a, b) == IF a < b THEN a ELSE b

Max(a, b) == IF a > b THEN a ELSE b

\* struct "h": little-endian signed 16-bit integer from two bytes
Int16LE(lo, hi) ==
    LET u == lo + 256 * hi
    IN  IF u >= 32768 THEN u - 65536 ELSE u

\* ------------------------------------------------------------------------
\* Register tables handed to _bulk_write
\* ------------------------------------------------------------------------
\* PMW3901._secret_sauce, the list of lines 203-210
PROLOGUE ==
    <<
       127, 0,  85, 1,  80, 7,  127, 14,  67, 16
    >>

\* PMW3901._secret_sauce, the list of lines 215-222
MIDSEQ ==
    <<
       127, 0,  81, 123,  80, 0,  85, 0,  127, 14
    >>

\* PMW3901._secret_sauce, the list of lines 232-237
INTERMEDIATE ==
    <<
       127, 0,  97, 173,  81, 112,  127, 14
    >>

\* PMW3901._secret_sauce, the list of lines 240-329
TAIL_PMW3901 ==
    <<
       127, 0,  97, 173,  127, 3,  64, 0,  127, 5,  65, 179,
       67, 241,  69, 20,  91, 50,  95, 52,  123, 8,  127, 6,
       68, 27,  64, 191,  78, 63,  127, 8,  101, 32,  106, 24,
       127, 9,  79, 175,  95, 64,  72, 128,  73, 128,  87, 119,
       96, 120,  97, 120,  98, 8,  99, 80,  127, 10,  69, 96,
       127, 0,  77, 17,  85, 128,  116, 33,  117, 31,  74, 120,
       75, 120,  68, 8,  69, 80,  100, 255,  101, 31,  127, 20,
       101, 103,  102, 8,  99, 112,  127, 21,  72, 72,  127, 7,
       65, 13,  67, 20,  75, 14,  69, 15,  68, 66,  76, 128,
       127, 16,  91, 2,  127, 7,  64, 65,  112, 0,  WAIT, 10,
       50, 68,  127, 7,  64, 64,  127, 6,  98, 240,  99, 0,
       127, 13,  72, 192,  111, 213,  127, 0,  91, 160,  78, 168,
       90, 80,  64, 128,  WAIT, 240,  127, 20,  111, 28,  127, 0
    >>

\* PMW3901.frame_capture, the list of lines 337-351
CAPTURE_SETUP ==
    <<
       127, 7,  76, 0,  127, 8,  106, 56,  127, 0,  85, 4,
       64, 128,  77, 17,  WAIT, 10,  127, 0,  88, 255
    >>

\* PAA5100._secret_sauce, the list of lines 401-408
PROLOGUE_PAA5100 ==
    <<
       127, 0,  85, 1,  80, 7,  127, 14,  67, 16
    >>

\* PAA5100._secret_sauce, the list of lines 413-419
MIDSEQ_PAA5100 ==
    <<
       127, 0,  81, 123,  80, 0,  85, 0,  127, 14
    >>

\* PAA5100._secret_sauce, the list of lines 429-434
INTERMEDIATE_PAA5100 ==
    <<
       127, 0,  97, 173,  81, 112,  127, 14
    >>

\* PAA5100._secret_sauce, the list of lines 437-546
TAIL_PAA5100 ==
    <<
       127, 0,  97, 173,  127, 3,  64, 0,  127, 5,  65, 179,
       67, 241,  69, 20,  95, 52,  123, 8,  94, 52,  91, 17,
       109, 17,  69, 23,  112, 229,  113, 229,  127, 6,  68, 27,
       64, 191,  78, 63,  127, 8,  102, 68,  101, 32,  106, 58,
       97, 5,  98, 5,  127, 9,  79, 175,  95, 64,  72, 128,
       73, 128,  87, 119,  96, 120,  97, 120,  98, 8,  99, 80,
       127, 10,  69, 96,  127, 0,  77, 17,  85, 128,  116, 33,
       117, 31,  74, 120,  75, 120,  68, 8,  69, 80,  100, 255,
       101, 31,  127, 20,  101, 103,  102, 8,  99, 112,  111, 28,
       127, 21,  72, 72,  127, 7,  65, 13,  67, 20,  75, 14,
       69, 15,  68, 66,  76, 128,  127, 16,  91, 2,  127, 7,
       64, 65,  WAIT, 10,  127, 0,  50, 0,  127, 7,  64, 64,
       127, 6,  104, 240,  105, 0,  127, 13,  72, 192,  111, 213,
       127, 0,  91, 160,  78, 168,  90, 144,  64, 128,  115, 31,
       WAIT, 10,  115, 0
    >>

Prologue(v) == IF v = "PAA5100" THEN PROLOGUE_PAA5100 ELSE PROLOGUE

MidSeq(v) == IF v = "PAA5100" THEN MIDSEQ_PAA5100 ELSE MIDSEQ

Intermediate(v) == IF v = "PAA5100" THEN INTERMEDIATE_PAA5100 ELSE INTERMEDIATE

\* a PMW3901 tail without its closing bank select: BankZeroAtNamedAccess
\* tells it from lines 240-329
TailSeqUnclosed(v) ==
    IF v = "PAA5100"
    THEN TAIL_PAA5100
    ELSE SubSeq(TAIL_PMW3901, 1, Len(TAIL_PMW3901) - 2)

TailSeq(v) == IF v = "PAA5100" THEN TAIL_PAA5100 ELSE TAIL_PMW3901

\* ------------------------------------------------------------------------
\* The sensor: the bytes it may answer
\* ------------------------------------------------------------------------
\* values of the calibration registers 0x70 / 0x71 for which the other
\* register is explored over its whole range
PivotC1 == {28}

PivotC2 == {100, 255}

\* a lower fragment carrying payload 0: what the sensor streams once the
\* first VariedPixels pixels of a frame are complete
SteadyFragments == {128}

\* second byte of the answer to a register read [reg, 0]; c is the value
\* last read from 0x70 and n the number of pixels completed so far
SensorByte(reg, c, n) ==
    CASE reg = 0   -> {73, 80}
      [] reg = 1   -> {0, 1, 2}
      [] reg = 2   -> {0, 127, 128}
      [] reg = 3   -> {1, 255}
      [] reg = 4   -> {0, 127, 128}
      [] reg = 5   -> {2}
      [] reg = 6   -> {0, 255}
      [] reg = 103 -> {127, 128}
      [] reg = 115 -> {0, 1}
      [] reg = 112 -> 0 .. 255
      [] reg = 113 -> IF c \in PivotC1 THEN 0 .. 255 ELSE PivotC2
      [] reg = 89  -> {0, 64, 128, 192}
      [] reg = 88  -> IF n < VariedPixels
                      THEN {0, 127, 131, 140, 192}
                      ELSE SteadyFragments
      [] OTHER     -> {0}

\* the 13 bytes answered to a motion burst
BurstAnswers ==
    { <<255, dr, 64, xl, xh, 2, yh, q, 50, 60, 7, su, 200>> :
        dr \in {0, 128}, xl \in {1, 255}, xh \in {0, 128},
        yh \in {0, 255}, q \in {24, 25}, su \in {30, 31} }

\* ------------------------------------------------------------------------
\* State
\* ------------------------------------------------------------------------
VARIABLES
    variant,      \* class of the object: "PMW3901" or "PAA5100"
    csGpio,       \* self._spi_cs_gpio is set (a software chip-select line)
    mem,          \* registers held by a simulated transport (none on the sensor)
    probe,        \* what a test handed to the driver: the <<addr, value>> of a
                  \* round trip, the list of a _bulk_write (<<>>: nothing yet)
    sent,         \* transactions a recording transport was handed, in order
    bank,         \* value a bank-tracking transport saw written last to the
                  \* bank-select register 0x7F (-1: none yet)
    fcAborted,    \* that transport failed a frame_capture while its
                  \* configuration list was being written
    csLine,       \* level driven on that line: 0 = INACTIVE (selected), 1 = ACTIVE
    constructed,  \* __init__ has returned normally
    op,           \* the public call in progress ("" when idle)
    pc,           \* label of the statement about to run
    stack,        \* return labels of the calls in progress
    wreg, wval,   \* _write: register, value
    rreg, rlen, rx, result, rvalue,   \* _read: register, length, x, result, value
    bw_data, bw_x,                    \* _bulk_write: data, x
    ret,          \* value returned by the call that returned last
    offset,       \* __init__: loop variable of the flush
    c1, c2,       \* _secret_sauce: c1, c2
    t_start, timeout, now,            \* t_start (-1: not yet set), timeout, time.time()
    degrees,      \* set_rotation: degrees
    invert_x, invert_y, swap_xy,      \* set_orientation: its arguments
    gm_data,      \* get_motion: data
    raw_data, fc_x,                   \* frame_capture: raw_data, x
    fc_uppers,    \* monitor: upper fragments read since raw_data[x] became
                  \* the current pixel (2: two or more)
    outcome,      \* how the last public call ended: "ok" or the exception
    got,          \* the {x} of the exception's message (-1: none)
    retval,       \* what the last public call returned
    lastTx,       \* bus monitor: bytes of the last transaction the current
                  \* public call sent
    nTx,          \* bus monitor: transactions issued by the current public call
                  \* (not counted in frame_capture)
    lastSleep,    \* monitor: argument (ms) of the last time.sleep of the
                  \* current public call
    obs           \* monitor: bytes read from 0x67, 0x73, 0x70, 0x71 in calibration

wvars == <<wreg, wval>>
rvars == <<rreg, rlen, rx, result, rvalue>>
bvars == <<bw_data, bw_x>>
svars == <<offset, c1, c2, obs>>
tvars == <<t_start, timeout>>
ovars == <<degrees, invert_x, invert_y, swap_xy>>
mvars == <<gm_data>>
fvars == <<raw_data, fc_x, fc_uppers>>
\* what no method of the driver changes
cfg   == <<variant, csGpio, mem, probe, sent, bank, fcAborted>>
bus   == <<lastTx, nTx>>
res   == <<outcome, got, retval>>

vars == <<variant, csGpio, mem, probe, sent, bank, fcAborted, csLine, constructed, op, pc, stack, wreg, wval,
          rreg, rlen, rx, result, rvalue, bw_data, bw_x, ret, offset, c1, c2,
          t_start, timeout, now, degrees, invert_x, invert_y, swap_xy, gm_data, raw_data, fc_x, fc_uppers, outcome, got, retval,
          lastTx, nTx, lastSleep, obs>>

\* Python values a method returns: None, an int v held as <<v>>, and a list
\* or tuple held as the sequence of its items (none has one item)
None == <<>>

Scalar(v) == <<v>>

Value(s) == s[1]

\* no byte of the calibration reads seen yet
Unobserved == [r67 |-> -1, r73 |-> -1, r70 |-> -1, r71 |-> -1]

\* a simulated transport that no write has reached
NoRegisters == [a \in {} |-> 0]

\* raw_data = [0 for _ in range(RAW_DATA_LEN)], line 368
EmptyFrame == [i \in {} |-> 0]

\* raw_data[i]
PixelAt(raw, i) == IF i \in DOMAIN raw THEN raw[i] ELSE 0

\* raw_data after raw_data[i] = v
SetPixel(raw, i, v) ==
    IF v = 0
    THEN [j \in DOMAIN raw \ {i} |-> raw[j]]
    ELSE [j \in DOMAIN raw \cup {i} |-> IF j = i THEN v ELSE raw[j]]

\* raw_data as the list the source holds
FrameList(raw) == [i \in 1 .. RAW_DATA_LEN |-> PixelAt(raw, i - 1)]

\* time.time() after d more ms
Elapse(d) ==
    now' = IF t_start >= 0 THEN Min(now + d, t_start + timeout + 1) ELSE now

\* t_start = time.time(): now is counted from this reading on
ReadClock ==
    /\ t_start' = 0
    /\ now' = 0

\* a sleep that returns at once: MotionReadTerminates tells it from
\* time.sleep
SleepNoTime(ms) ==
    /\ lastSleep' = ms
    /\ Elapse(0)

\* time.sleep(ms / 1000)
Sleep(ms) ==
    /\ lastSleep' = ms
    /\ \E j \in 0 .. MaxOversleep : Elapse(Max(ms, 0) + j)

\* the bus monitor counts the transactions of every call but frame_capture,
\* whose loops have no bound on the number of transfers before the deadline
Counted(n) == IF op = "frame_capture" THEN n ELSE n + 1

\* `return v`
Return(v) ==
    /\ pc' = Head(stack)
    /\ stack' = Tail(stack)
    /\ ret' = v

\* self._write(r, v); continue at k
CallWrite(r, v, k) ==
    /\ wreg' = r
    /\ wval' = v
    /\ stack' = <<k>> \o stack
    /\ pc' = IF csGpio THEN "w_cs_low" ELSE "w_xfer"

\* self._read(r, n); continue at k
CallRead(r, n, k) ==
    /\ rreg' = r
    /\ rlen' = n
    /\ rx' = 0
    /\ result' = <<>>
    /\ rvalue' = <<>>
    /\ stack' = <<k>> \o stack
    /\ pc' = IF csGpio THEN "r_cs_low" ELSE "r_xfer"

\* self._bulk_write(d); continue at k
CallBulk(d, k) ==
    /\ bw_data' = d
    /\ bw_x' = 0
    /\ stack' = <<k>> \o stack
    /\ pc' = "bw_loop"

\* an exception with message e (its {x} being g) leaves the running method
\* and every caller up to the user of the object; one that leaves __init__
\* leaves no object behind
RaiseGot(e, g) ==
    /\ pc' = IF constructed THEN "idle" ELSE "no_object"
    /\ op' = ""
    /\ stack' = <<>>
    /\ outcome' = e
    /\ got' = g
    /\ retval' = None
    /\ wreg' = 0 /\ wval' = 0
    /\ rreg' = 0 /\ rlen' = 0 /\ rx' = 0 /\ result' = <<>> /\ rvalue' = <<>>
    /\ bw_data' = <<>> /\ bw_x' = 0
    /\ ret' = None
    /\ offset' = 0 /\ c1' = 0 /\ c2' = 0
    /\ obs' = Unobserved
    /\ t_start' = -1 /\ timeout' = 0 /\ now' = 0
    /\ degrees' = 0 /\ invert_x' = FALSE /\ invert_y' = FALSE
    /\ swap_xy' = FALSE
    /\ gm_data' = <<>>
    /\ raw_data' = EmptyFrame /\ fc_x' = 0 /\ fc_uppers' = 0

Raise(e) == RaiseGot(e, -1)

\* ------------------------------------------------------------------------
\* Construction: lines 32-49 have run
\* ------------------------------------------------------------------------
Init ==
    /\ variant \in {"PMW3901", "PAA5100"}
    /\ csGpio \in BOOLEAN
    /\ mem = NoRegisters
    /\ probe = <<>>
    /\ sent = <<>>
    /\ bank = -1
    /\ fcAborted = FALSE
    /\ csLine = IF csGpio THEN 0 ELSE 1
    /\ constructed = FALSE
    /\ op = "__init__"
    /\ pc = IF csGpio THEN "init_cs_low" ELSE "init_reset"
    /\ stack = <<>>
    /\ wreg = 0 /\ wval = 0
    /\ rreg = 0 /\ rlen = 0 /\ rx = 0 /\ result = <<>> /\ rvalue = <<>>
    /\ bw_data = <<>> /\ bw_x = 0
    /\ ret = None
    /\ offset = 0 /\ c1 = 0 /\ c2 = 0
    /\ t_start = -1 /\ timeout = 0 /\ now = 0
    /\ degrees = 0 /\ invert_x = FALSE /\ invert_y = FALSE /\ swap_xy = FALSE
    /\ gm_data = <<>>
    /\ raw_data = EmptyFrame /\ fc_x = 0 /\ fc_uppers = 0
    /\ outcome = "running" /\ got = -1 /\ retval = None
    /\ lastTx = <<>> /\ nTx = 0
    /\ lastSleep = 0
    /\ obs = Unobserved

\* ------------------------------------------------------------------------
\* _write(register, value)                                   lines 163-168
\* ------------------------------------------------------------------------
\* a write that leaves bit 7 alone: WireFraming tells it from line 166
WireWritePlain(register, value) == <<register, value>>

\* the bytes handed to xfer2 at line 166
WireWrite(register, value) == <<BitOr(register, 128), value>>

WriteCsLow ==
    /\ pc = "w_cs_low"
    /\ csLine' = 0
    /\ pc' = "w_xfer"
    /\ UNCHANGED <<cfg, constructed, op, stack, wvars, rvars, bvars, ret,
                   svars, tvars, now, ovars, mvars, fvars, res, bus, lastSleep>>

WriteXfer ==
    /\ pc = "w_xfer"
    /\ lastTx' = WireWrite(wreg, wval)
    /\ nTx' = Counted(nTx)
    /\ \E d \in 0 .. MaxXferTime : Elapse(d)
    /\ IF csGpio
       THEN pc' = "w_cs_high" /\ UNCHANGED <<stack, ret>>
       ELSE Return(None)
    /\ UNCHANGED <<cfg, csLine, constructed, op, wvars, rvars, bvars,
                   svars, tvars, ovars, mvars, fvars, res, lastSleep>>

\* a failed transfer that _write tries again: FailurePropagates tells it from
\* line 166, where nothing catches what xfer2 raises
WriteXferRetries ==
    /\ pc = "w_xfer"
    /\ lastTx' = WireWrite(wreg, wval)
    /\ nTx' = Counted(nTx)
    /\ UNCHANGED <<cfg, csLine, constructed, op, pc, stack, wvars, rvars,
                   bvars, ret, svars, tvars, now, ovars, mvars, fvars, res,
                   lastSleep>>

\* spi_dev.xfer2 raises OSError
WriteXferFails ==
    /\ pc = "w_xfer"
    /\ lastTx' = WireWrite(wreg, wval)
    /\ nTx' = Counted(nTx)
    /\ Raise("OSError")
    /\ UNCHANGED <<cfg, csLine, constructed, lastSleep>>

WriteCsHigh ==
    /\ pc = "w_cs_high"
    /\ csLine' = 1
    /\ Return(None)
    /\ UNCHANGED <<cfg, constructed, op, wvars, rvars, bvars,
                   svars, tvars, now, ovars, mvars, fvars, res, bus, lastSleep>>

\* ------------------------------------------------------------------------
\* _read(register, length)                                   lines 170-183
\* ------------------------------------------------------------------------
ReadCsLow ==
    /\ pc = "r_cs_low"
    /\ csLine' = 0
    /\ pc' = "r_xfer"
    /\ UNCHANGED <<cfg, constructed, op, stack, wvars, rvars, bvars, ret,
                   svars, tvars, now, ovars, mvars, fvars, res, bus, lastSleep>>

\* the bytes handed to xfer2 at line 175
WireRead(register, x) == <<register + x, 0>>

\* a read that keeps the first answered byte: RoundTrip tells it from
\* line 178
ReadStoreFirst(v) ==
    LET r == Append(result, v[1])
    IN  IF rx + 1 < rlen
        THEN /\ result' = r
             /\ rx' = rx + 1
             /\ rvalue' = <<>>
             /\ pc' = IF csGpio THEN "r_cs_low" ELSE "r_xfer"
             /\ UNCHANGED <<rreg, rlen, stack, ret>>
        ELSE /\ Return(IF rlen = 1 THEN Scalar(r[1]) ELSE r)
             /\ rreg' = 0 /\ rlen' = 0 /\ rx' = 0
             /\ result' = <<>> /\ rvalue' = <<>>

\* result.append(v[1]), line 178, then the next round of the loop or,
\* at its end, lines 180-183
ReadStore(v) ==
    LET r == Append(result, v[2])
    IN  IF rx + 1 < rlen
        THEN /\ result' = r
             /\ rx' = rx + 1
             /\ rvalue' = <<>>
             /\ pc' = IF csGpio THEN "r_cs_low" ELSE "r_xfer"
             /\ UNCHANGED <<rreg, rlen, stack, ret>>
        ELSE /\ Return(IF rlen = 1 THEN Scalar(r[1]) ELSE r)
             /\ rreg' = 0 /\ rlen' = 0 /\ rx' = 0
             /\ result' = <<>> /\ rvalue' = <<>>

\* line 175; without a chip-select line, line 178 and the loop follow at once
ReadXfer ==
    /\ pc = "r_xfer"
    /\ lastTx' = WireRead(rreg, rx)
    /\ nTx' = Counted(nTx)
    /\ \E b \in SensorByte(rreg + rx, c1, fc_x) :
          IF csGpio
          THEN /\ rvalue' = <<0, b>>
               /\ pc' = "r_cs_high"
               /\ UNCHANGED <<rreg, rlen, rx, result, stack, ret>>
          ELSE ReadStore(<<0, b>>)
    /\ \E d \in 0 .. MaxXferTime : Elapse(d)
    /\ UNCHANGED <<cfg, csLine, constructed, op, wvars, bvars, svars, tvars,
                   ovars, mvars, fvars, res, lastSleep>>

ReadXferFails ==
    /\ pc = "r_xfer"
    /\ lastTx' = WireRead(rreg, rx)
    /\ nTx' = Counted(nTx)
    /\ Raise("OSError")
    /\ UNCHANGED <<cfg, csLine, constructed, lastSleep>>

\* lines 176-178
ReadCsHigh ==
    /\ pc = "r_cs_high"
    /\ csLine' = 1
    /\ ReadStore(rvalue)
    /\ UNCHANGED <<cfg, constructed, op, wvars, bvars, svars, tvars, now,
                   ovars, mvars, fvars, res, bus, lastSleep>>

\* ------------------------------------------------------------------------
\* _bulk_write(data)                                         lines 185-193
\* ------------------------------------------------------------------------
\* a WAIT that swallows the pair after it: SequencePlayerWrites tells it from
\* lines 186-190
BulkWaitSwallows ==
    /\ pc = "bw_loop"
    /\ bw_x < Len(bw_data)
    /\ bw_data[bw_x + 1] = WAIT
    /\ Sleep(bw_data[bw_x + 2])
    /\ bw_x' = bw_x + 4
    /\ UNCHANGED <<cfg, csLine, constructed, op, pc, stack, wvars, rvars,
                   bw_data, ret, svars, tvars, ovars, mvars, fvars, res, bus>>

BulkWait ==
    /\ pc = "bw_loop"
    /\ bw_x < Len(bw_data)
    /\ bw_data[bw_x + 1] = WAIT
    /\ Sleep(bw_data[bw_x + 2])
    /\ bw_x' = bw_x + 2
    /\ UNCHANGED <<cfg, csLine, constructed, op, pc, stack, wvars, rvars,
                   bw_data, ret, svars, tvars, ovars, mvars, fvars, res, bus>>

BulkWrite ==
    /\ pc = "bw_loop"
    /\ bw_x < Len(bw_data)
    /\ bw_data[bw_x + 1] # WAIT
    /\ CallWrite(bw_data[bw_x + 1], bw_data[bw_x + 2], "bw_loop")
    /\ bw_x' = bw_x + 2
    /\ UNCHANGED <<cfg, csLine, constructed, op, rvars, bw_data, ret,
                   svars, tvars, now, ovars, mvars, fvars, res, bus, lastSleep>>

BulkDone ==
    /\ pc = "bw_loop"
    /\ bw_x >= Len(bw_data)
    /\ Return(None)
    /\ bw_data' = <<>>
    /\ bw_x' = 0
    /\ UNCHANGED <<cfg, csLine, constructed, op, wvars, rvars,
                   svars, tvars, now, ovars, mvars, fvars, res, bus, lastSleep>>

\* ------------------------------------------------------------------------
\* __init__                                                    lines 50-64
\* ------------------------------------------------------------------------
InitCsLow ==
    /\ pc = "init_cs_low"
    /\ csLine' = 0
    /\ pc' = "init_cs_high"
    /\ UNCHANGED <<cfg, constructed, op, stack, wvars, rvars, bvars, ret,
                   svars, tvars, now, ovars, mvars, fvars, res, bus, lastSleep>>

InitCsHigh ==
    /\ pc = "init_cs_high"
    /\ Sleep(50)
    /\ csLine' = 1
    /\ pc' = "init_reset"
    /\ UNCHANGED <<cfg, constructed, op, stack, wvars, rvars, bvars, ret,
                   svars, tvars, ovars, mvars, fvars, res, bus>>

InitReset ==
    /\ pc = "init_reset"
    /\ CallWrite(REG_POWER_UP_RESET, 90, "init_sleep")
    /\ UNCHANGED <<cfg, csLine, constructed, op, rvars, bvars, ret,
                   svars, tvars, now, ovars, mvars, fvars, res, bus, lastSleep>>

InitSleep ==
    /\ pc = "init_sleep"
    /\ Sleep(20)
    /\ offset' = 0
    /\ pc' = "init_flush"
    /\ UNCHANGED <<cfg, csLine, constructed, op, stack, wvars, rvars, bvars,
                   ret, c1, c2, obs, tvars, ovars, mvars, fvars, res, bus>>

\* a flush that starts one register late: BringUpOrder tells it from
\* lines 57-58
InitFlushLate ==
    /\ pc = "init_flush"
    /\ offset < 5
    /\ CallRead(REG_DATA_READY + offset + 1, 1, "init_flush")
    /\ offset' = offset + 1
    /\ UNCHANGED <<cfg, csLine, constructed, op, wvars, bvars, ret,
                   c1, c2, obs, tvars, now, ovars, mvars, fvars, res, bus, lastSleep>>

\* lines 57-58
InitFlush ==
    /\ pc = "init_flush"
    /\ offset < 5
    /\ CallRead(REG_DATA_READY + offset, 1, "init_flush")
    /\ offset' = offset + 1
    /\ UNCHANGED <<cfg, csLine, constructed, op, wvars, bvars, ret,
                   c1, c2, obs, tvars, now, ovars, mvars, fvars, res, bus, lastSleep>>

InitSauce ==
    /\ pc = "init_flush"
    /\ offset >= 5
    /\ offset' = 0
    /\ stack' = <<"init_get_id">> \o stack
    /\ pc' = "ss_prologue"
    /\ UNCHANGED <<cfg, csLine, constructed, op, wvars, rvars, bvars, ret,
                   c1, c2, obs, tvars, now, ovars, mvars, fvars, res, bus, lastSleep>>

InitGetId ==
    /\ pc = "init_get_id"
    /\ stack' = <<"init_check">> \o stack
    /\ pc' = "get_id"
    /\ UNCHANGED <<cfg, csLine, constructed, op, wvars, rvars, bvars, ret,
                   svars, tvars, now, ovars, mvars, fvars, res, bus, lastSleep>>

\* a check that lets one good field pass: IdentityGate tells it from line 63
IdentityRejectedBoth(product_id, revision) ==
    product_id # 73 /\ revision \notin {0, 1}

\* the condition of line 63
IdentityRejected(product_id, revision) ==
    product_id # 73 \/ revision \notin {0, 1}

InitCheckFails ==
    /\ pc = "init_check"
    /\ IdentityRejected(ret[1], ret[2])
    /\ Raise("RuntimeError: Invalid Product ID or Revision")
    /\ UNCHANGED <<cfg, csLine, constructed, bus, lastSleep>>

InitDone ==
    /\ pc = "init_check"
    /\ ~IdentityRejected(ret[1], ret[2])
    /\ constructed' = TRUE
    /\ op' = ""
    /\ pc' = "idle"
    /\ outcome' = "ok"
    /\ ret' = None
    /\ obs' = Unobserved
    /\ UNCHANGED <<cfg, csLine, stack, wvars, rvars, bvars, offset, c1, c2,
                   tvars, now, ovars, mvars, fvars, got, retval, bus,
                   lastSleep>>

\* get_id                                                      lines 72-74
GetId ==
    /\ pc = "get_id"
    /\ rreg' = REG_ID
    /\ rlen' = 2
    /\ rx' = 0
    /\ result' = <<>>
    /\ rvalue' = <<>>
    /\ pc' = IF csGpio THEN "r_cs_low" ELSE "r_xfer"
    /\ UNCHANGED <<cfg, csLine, constructed, op, stack, wvars, bvars, ret,
                   svars, tvars, now, ovars, mvars, fvars, res, bus, lastSleep>>

\* ------------------------------------------------------------------------
\* _secret_sauce            lines 195-329 (PMW3901), 391-546 (PAA5100)
\* ------------------------------------------------------------------------
\* the two tests as alternatives (if / else): CalibrationExamples tells them
\* from lines 226-230
AdjustC1Either(c) ==
    LET b == IF c <= 28 THEN c + 14 ELSE c + 11
    IN  Max(0, Min(63, b))

\* lines 226-230
AdjustC1(c) ==
    LET a == IF c <= 28 THEN c + 14 ELSE c
        b == IF a > 28 THEN a + 11 ELSE a
    IN  Max(0, Min(63, b))

\* a rounding division: CalibrationWriteBack tells it from line 231
AdjustC2Rounded(c) == (c * 45 + 50) \div 100

\* line 231
AdjustC2(c) == (c * 45) \div 100

\* number of register writes _bulk_write(d) issues
WritePairs(d) ==
    Cardinality({i \in 1 .. (Len(d) \div 2) : d[2 * i - 1] # WAIT})

\* number of bus transactions of _secret_sauce; b: line 223 (420) was true
CalibrationLength(v, b) ==
    WritePairs(Prologue(v)) + 2 + WritePairs(MidSeq(v)) + 1
    + (IF b THEN 2 + WritePairs(Intermediate(v)) + 2 ELSE 0)
    + WritePairs(TailSeq(v))

SaucePrologue ==
    /\ pc = "ss_prologue"
    /\ CallBulk(Prologue(variant), "ss_read67")
    /\ UNCHANGED <<cfg, csLine, constructed, op, wvars, rvars, ret,
                   svars, tvars, now, ovars, mvars, fvars, res, bus, lastSleep>>

SauceRead67 ==
    /\ pc = "ss_read67"
    /\ CallRead(103, 1, "ss_branchA")
    /\ UNCHANGED <<cfg, csLine, constructed, op, wvars, bvars, ret,
                   svars, tvars, now, ovars, mvars, fvars, res, bus, lastSleep>>

SauceBranchASet ==
    /\ pc = "ss_branchA"
    /\ BitAnd(Value(ret), 128) # 0
    /\ obs' = [obs EXCEPT !.r67 = Value(ret)]
    /\ CallWrite(72, 4, "ss_mid")
    /\ UNCHANGED <<cfg, csLine, constructed, op, rvars, bvars, ret, offset,
                   c1, c2, tvars, now, ovars, mvars, fvars, res, bus, lastSleep>>

SauceBranchAClear ==
    /\ pc = "ss_branchA"
    /\ BitAnd(Value(ret), 128) = 0
    /\ obs' = [obs EXCEPT !.r67 = Value(ret)]
    /\ CallWrite(72, 2, "ss_mid")
    /\ UNCHANGED <<cfg, csLine, constructed, op, rvars, bvars, ret, offset,
                   c1, c2, tvars, now, ovars, mvars, fvars, res, bus, lastSleep>>

SauceMid ==
    /\ pc = "ss_mid"
    /\ CallBulk(MidSeq(variant), "ss_read73")
    /\ UNCHANGED <<cfg, csLine, constructed, op, wvars, rvars, ret,
                   svars, tvars, now, ovars, mvars, fvars, res, bus, lastSleep>>

SauceRead73 ==
    /\ pc = "ss_read73"
    /\ CallRead(115, 1, "ss_branchB")
    /\ UNCHANGED <<cfg, csLine, constructed, op, wvars, bvars, ret,
                   svars, tvars, now, ovars, mvars, fvars, res, bus, lastSleep>>

\* line 223 true, line 224
SauceReadC1 ==
    /\ pc = "ss_branchB"
    /\ Value(ret) = 0
    /\ obs' = [obs EXCEPT !.r73 = Value(ret)]
    /\ CallRead(112, 1, "ss_c1")
    /\ UNCHANGED <<cfg, csLine, constructed, op, wvars, bvars, ret, offset,
                   c1, c2, tvars, now, ovars, mvars, fvars, res, bus, lastSleep>>

\* a skip that still writes back: CalibrationBranches tells it from line 223
SauceSkipBWritesBack ==
    /\ pc = "ss_branchB"
    /\ Value(ret) # 0
    /\ obs' = [obs EXCEPT !.r73 = Value(ret)]
    /\ pc' = "ss_write70"
    /\ UNCHANGED <<cfg, csLine, constructed, op, stack, wvars, rvars, bvars,
                   ret, offset, c1, c2, tvars, now, ovars, mvars, fvars, res, bus,
                   lastSleep>>

\* line 223 false
SauceSkipB ==
    /\ pc = "ss_branchB"
    /\ Value(ret) # 0
    /\ obs' = [obs EXCEPT !.r73 = Value(ret)]
    /\ pc' = "ss_tail"
    /\ UNCHANGED <<cfg, csLine, constructed, op, stack, wvars, rvars, bvars,
                   ret, offset, c1, c2, tvars, now, ovars, mvars, fvars, res, bus,
                   lastSleep>>

\* c1 = self._read(0x70); line 225
SauceReadC2 ==
    /\ pc = "ss_c1"
    /\ c1' = Value(ret)
    /\ obs' = [obs EXCEPT !.r70 = Value(ret)]
    /\ CallRead(113, 1, "ss_c2")
    /\ UNCHANGED <<cfg, csLine, constructed, op, wvars, bvars, ret, offset,
                   c2, tvars, now, ovars, mvars, fvars, res, bus, lastSleep>>

\* c2 = self._read(0x71); lines 226-237
SauceAdjust ==
    /\ pc = "ss_c2"
    /\ c1' = AdjustC1(c1)
    /\ c2' = AdjustC2(Value(ret))
    /\ obs' = [obs EXCEPT !.r71 = Value(ret)]
    /\ CallBulk(Intermediate(variant), "ss_write70")
    /\ UNCHANGED <<cfg, csLine, constructed, op, wvars, rvars, ret, offset,
                   tvars, now, ovars, mvars, fvars, res, bus, lastSleep>>

\* line 238
SauceWrite70 ==
    /\ pc = "ss_write70"
    /\ CallWrite(112, c1, "ss_write71")
    /\ UNCHANGED <<cfg, csLine, constructed, op, rvars, bvars, ret,
                   svars, tvars, now, ovars, mvars, fvars, res, bus, lastSleep>>

\* line 239
SauceWrite71 ==
    /\ pc = "ss_write71"
    /\ CallWrite(113, c2, "ss_tail")
    /\ c1' = 0
    /\ c2' = 0
    /\ UNCHANGED <<cfg, csLine, constructed, op, rvars, bvars, ret, offset,
                   obs, tvars, now, ovars, mvars, fvars, res, bus, lastSleep>>

\* lines 240-329
SauceTail ==
    /\ pc = "ss_tail"
    /\ CallBulk(TailSeq(variant), "ss_ret")
    /\ obs' = [obs EXCEPT !.r70 = -1, !.r71 = -1]
    /\ UNCHANGED <<cfg, csLine, constructed, op, wvars, rvars, ret, offset,
                   c1, c2, tvars, now, ovars, mvars, fvars, res, bus,
                   lastSleep>>

SauceReturn ==
    /\ pc = "ss_ret"
    /\ Return(None)
    /\ UNCHANGED <<cfg, csLine, constructed, op, wvars, rvars, bvars,
                   svars, tvars, now, ovars, mvars, fvars, res, bus, lastSleep>>

\* a public method returned normally to the caller
ReturnToCaller ==
    /\ pc = "caller"
    /\ pc' = "idle"
    /\ op' = ""
    /\ outcome' = "ok"
    /\ got' = -1
    /\ retval' = ret
    /\ ret' = None
    /\ t_start' = -1 /\ timeout' = 0 /\ now' = 0
    /\ degrees' = 0 /\ invert_x' = FALSE /\ invert_y' = FALSE
    /\ swap_xy' = FALSE
    /\ UNCHANGED <<cfg, csLine, constructed, stack, wvars, rvars, bvars,
                   svars, mvars, fvars, bus, lastSleep>>

\* the caller invokes public method m of the constructed object
Invoke(m, entry) ==
    /\ pc = "idle"
    /\ constructed
    /\ op' = m
    /\ pc' = entry
    /\ stack' = <<"caller">>
    /\ outcome' = "running"
    /\ got' = -1
    /\ retval' = None
    /\ lastTx' = <<>>
    /\ nTx' = 0
    /\ lastSleep' = 0
    /\ now' = 0

CallGetId ==
    /\ Invoke("get_id", "get_id")
    /\ UNCHANGED <<cfg, csLine, constructed, wvars, rvars, bvars, ret,
                   svars, ovars, tvars, mvars, fvars>>

\* ------------------------------------------------------------------------
\* set_rotation, set_orientation                              lines 76-110
\* ------------------------------------------------------------------------
CallSetRotation ==
    /\ Invoke("set_rotation", "set_rotation")
    /\ degrees' \in {0, 45, 90, 180, 270}
    /\ UNCHANGED <<cfg, csLine, constructed, wvars, rvars, bvars, ret,
                   svars, invert_x, invert_y, swap_xy, tvars, mvars, fvars>>

CallSetOrientation ==
    /\ Invoke("set_orientation", "set_orientation")
    /\ invert_x' \in BOOLEAN
    /\ invert_y' \in BOOLEAN
    /\ swap_xy' \in BOOLEAN
    /\ UNCHANGED <<cfg, csLine, constructed, wvars, rvars, bvars, ret,
                   svars, degrees, tvars, mvars, fvars>>

\* the keyword arguments set_rotation passes, lines 82-89
RotationArgs(d) ==
    CASE d = 0   -> [invert_x |-> TRUE,  invert_y |-> TRUE,  swap_xy |-> TRUE]
      [] d = 90  -> [invert_x |-> FALSE, invert_y |-> TRUE,  swap_xy |-> FALSE]
      [] d = 180 -> [invert_x |-> FALSE, invert_y |-> FALSE, swap_xy |-> TRUE]
      [] d = 270 -> [invert_x |-> TRUE,  invert_y |-> FALSE, swap_xy |-> FALSE]

SetRotation ==
    /\ pc = "set_rotation"
    /\ degrees \in {0, 90, 180, 270}
    /\ invert_x' = RotationArgs(degrees).invert_x
    /\ invert_y' = RotationArgs(degrees).invert_y
    /\ swap_xy' = RotationArgs(degrees).swap_xy
    /\ pc' = "set_orientation"
    /\ UNCHANGED <<cfg, csLine, constructed, op, stack, wvars, rvars, bvars,
                   ret, svars, degrees, tvars, now, mvars, fvars, res, bus,
                   lastSleep>>

SetRotationRaises ==
    /\ pc = "set_rotation"
    /\ degrees \notin {0, 90, 180, 270}
    /\ Raise("TypeError: Degrees must be one of 0, 90, 180 or 270")
    /\ UNCHANGED <<cfg, csLine, constructed, bus, lastSleep>>

\* the two invert bits exchanged: RotationBytes tells it from lines 103-109
OrientationByteExchanged(ix, iy, sw) ==
    LET v0 == 0
        v1 == IF sw THEN BitOr(v0, 128) ELSE v0
        v2 == IF ix THEN BitOr(v1, 64) ELSE v1
        v3 == IF iy THEN BitOr(v2, 32) ELSE v2
    IN  v3

\* lines 103-109
OrientationByte(ix, iy, sw) ==
    LET v0 == 0
        v1 == IF sw THEN BitOr(v0, 128) ELSE v0
        v2 == IF iy THEN BitOr(v1, 64) ELSE v1
        v3 == IF ix THEN BitOr(v2, 32) ELSE v2
    IN  v3

SetOrientation ==
    /\ pc = "set_orientation"
    /\ wreg' = REG_ORIENTATION
    /\ wval' = OrientationByte(invert_x, invert_y, swap_xy)
    /\ pc' = IF csGpio THEN "w_cs_low" ELSE "w_xfer"
    /\ UNCHANGED <<cfg, csLine, constructed, op, stack, rvars, bvars, ret,
                   svars, ovars, tvars, now, mvars, fvars, res, bus,
                   lastSleep>>

\* ------------------------------------------------------------------------
\* get_motion                                                lines 112-142
\* ------------------------------------------------------------------------
\* a layout with no observation byte, the deltas right after the status
\* byte: BurstLayout tells it from lines 131-135
UnpackBurstPacked(d) ==
    [ dr            |-> d[2],
      obs           |-> d[2],
      x             |-> Int16LE(d[3], d[4]),
      y             |-> Int16LE(d[5], d[6]),
      quality       |-> d[7],
      raw_sum       |-> d[8],
      raw_max       |-> d[9],
      raw_min       |-> d[10],
      shutter_upper |-> d[11],
      shutter_lower |-> d[12] ]

\* struct.unpack("<BBBhhBBBBBB", bytearray(data)), line 131-135
UnpackBurst(d) ==
    [ dr            |-> d[2],
      obs           |-> d[3],
      x             |-> Int16LE(d[4], d[5]),
      y             |-> Int16LE(d[6], d[7]),
      quality       |-> d[8],
      raw_sum       |-> d[9],
      raw_max       |-> d[10],
      raw_min       |-> d[11],
      shutter_upper |-> d[12],
      shutter_lower |-> d[13] ]

\* a test of data-ready alone: ReturnsFirstValidSample tells it from line 137
BurstAcceptedReady(s) ==
    BitAnd(s.dr, 128) # 0

\* the condition of line 137
BurstAccepted(s) ==
    BitAnd(s.dr, 128) # 0 /\ ~(s.quality < 25 /\ s.shutter_upper = 31)

CallGetMotion ==
    /\ Invoke("get_motion", "gm_start")
    /\ timeout' \in 0 .. MaxTimeout
    /\ UNCHANGED <<cfg, csLine, constructed, wvars, rvars, bvars, ret,
                   svars, ovars, t_start, mvars, fvars>>

\* line 124
GmStart ==
    /\ pc = "gm_start"
    /\ ReadClock
    /\ pc' = "gm_loop"
    /\ UNCHANGED <<cfg, csLine, constructed, op, stack, wvars, rvars, bvars,
                   ret, svars, ovars, timeout, mvars, fvars, res, bus,
                   lastSleep>>

\* line 125 true, lines 126-127
GmLoop ==
    /\ pc = "gm_loop"
    /\ now - t_start < timeout
    /\ pc' = IF csGpio THEN "gm_cs_low" ELSE "gm_xfer"
    /\ UNCHANGED <<cfg, csLine, constructed, op, stack, wvars, rvars, bvars,
                   ret, svars, ovars, tvars, now, mvars, fvars, res, bus,
                   lastSleep>>

\* line 125 false, line 142
GmTimeout ==
    /\ pc = "gm_loop"
    /\ ~(now - t_start < timeout)
    /\ Raise("RuntimeError: Timed out waiting for motion data.")
    /\ UNCHANGED <<cfg, csLine, constructed, bus, lastSleep>>

GmCsLow ==
    /\ pc = "gm_cs_low"
    /\ csLine' = 0
    /\ pc' = "gm_xfer"
    /\ UNCHANGED <<cfg, constructed, op, stack, wvars, rvars, bvars, ret,
                   svars, ovars, tvars, now, mvars, fvars, res, bus,
                   lastSleep>>

\* the bytes handed to xfer2 at line 128
WireBurst == <<REG_MOTION_BURST>> \o [i \in 1 .. 12 |-> 0]

\* line 128
GmXfer ==
    /\ pc = "gm_xfer"
    /\ lastTx' = WireBurst
    /\ nTx' = Counted(nTx)
    /\ gm_data' \in BurstAnswers
    /\ \E d \in 0 .. MaxXferTime : Elapse(d)
    /\ pc' = IF csGpio THEN "gm_cs_high" ELSE "gm_check"
    /\ UNCHANGED <<cfg, csLine, constructed, op, stack, wvars, rvars, bvars,
                   ret, svars, ovars, tvars, fvars, res, lastSleep>>

GmXferFails ==
    /\ pc = "gm_xfer"
    /\ lastTx' = WireBurst
    /\ nTx' = Counted(nTx)
    /\ Raise("OSError")
    /\ UNCHANGED <<cfg, csLine, constructed, lastSleep>>

GmCsHigh ==
    /\ pc = "gm_cs_high"
    /\ csLine' = 1
    /\ pc' = "gm_check"
    /\ UNCHANGED <<cfg, constructed, op, stack, wvars, rvars, bvars, ret,
                   svars, ovars, tvars, now, mvars, fvars, res, bus,
                   lastSleep>>

\* lines 131-138, sample accepted
GmReturn ==
    /\ pc = "gm_check"
    /\ BurstAccepted(UnpackBurst(gm_data))
    /\ Return(<<UnpackBurst(gm_data).x, UnpackBurst(gm_data).y>>)
    /\ gm_data' = <<>>
    /\ UNCHANGED <<cfg, csLine, constructed, op, wvars, rvars, bvars,
                   svars, ovars, tvars, now, fvars, res, bus, lastSleep>>

\* lines 131-140, sample rejected
GmRetry ==
    /\ pc = "gm_check"
    /\ ~BurstAccepted(UnpackBurst(gm_data))
    /\ Sleep(1)
    /\ gm_data' = <<>>
    /\ pc' = "gm_loop"
    /\ UNCHANGED <<cfg, csLine, constructed, op, stack, wvars, rvars, bvars,
                   ret, svars, ovars, tvars, fvars, res, bus>>

\* ------------------------------------------------------------------------
\* get_motion_slow                                           lines 144-161
\* ------------------------------------------------------------------------
\* struct.unpack("<Bhh", bytearray(data)), line 156
UnpackSlow(d) ==
    [ dr |-> d[1],
      x  |-> Int16LE(d[2], d[3]),
      y  |-> Int16LE(d[4], d[5]) ]

CallGetMotionSlow ==
    /\ Invoke("get_motion_slow", "gs_start")
    /\ timeout' \in 0 .. MaxTimeout
    /\ UNCHANGED <<cfg, csLine, constructed, wvars, rvars, bvars, ret,
                   svars, ovars, t_start, mvars, fvars>>

GsStart ==
    /\ pc = "gs_start"
    /\ ReadClock
    /\ pc' = "gs_loop"
    /\ UNCHANGED <<cfg, csLine, constructed, op, stack, wvars, rvars, bvars,
                   ret, svars, ovars, timeout, mvars, fvars, res, bus,
                   lastSleep>>

\* line 154 true, line 155
GsLoop ==
    /\ pc = "gs_loop"
    /\ now - t_start < timeout
    /\ CallRead(REG_DATA_READY, 5, "gs_check")
    /\ UNCHANGED <<cfg, csLine, constructed, op, wvars, bvars, ret,
                   svars, ovars, tvars, now, mvars, fvars, res, bus,
                   lastSleep>>

\* line 154 false, line 161
GsTimeout ==
    /\ pc = "gs_loop"
    /\ ~(now - t_start < timeout)
    /\ Raise("RuntimeError: Timed out waiting for motion data.")
    /\ UNCHANGED <<cfg, csLine, constructed, bus, lastSleep>>

\* lines 156-158
GsReturn ==
    /\ pc = "gs_check"
    /\ BitAnd(UnpackSlow(ret).dr, 128) # 0
    /\ pc' = Head(stack)
    /\ stack' = Tail(stack)
    /\ ret' = <<UnpackSlow(ret).x, UnpackSlow(ret).y>>
    /\ UNCHANGED <<cfg, csLine, constructed, op, wvars, rvars, bvars,
                   svars, ovars, tvars, now, mvars, fvars, res, bus,
                   lastSleep>>

\* lines 156-159
GsRetry ==
    /\ pc = "gs_check"
    /\ BitAnd(UnpackSlow(ret).dr, 128) = 0
    /\ Sleep(1)
    /\ ret' = None
    /\ pc' = "gs_loop"
    /\ UNCHANGED <<cfg, csLine, constructed, op, stack, wvars, rvars, bvars,
                   svars, ovars, tvars, mvars, fvars, res, bus>>

\* ------------------------------------------------------------------------
\* frame_capture                                             lines 331-385
\* ------------------------------------------------------------------------
CallFrameCapture ==
    /\ Invoke("frame_capture", "fc_config")
    /\ timeout' = CaptureTimeout
    /\ UNCHANGED <<cfg, csLine, constructed, wvars, rvars, bvars, ret,
                   svars, ovars, t_start, mvars, fvars>>

\* lines 337-351
FcConfig ==
    /\ pc = "fc_config"
    /\ CallBulk(CAPTURE_SETUP, "fc_t0")
    /\ UNCHANGED <<cfg, csLine, constructed, op, wvars, rvars, ret,
                   svars, ovars, tvars, now, mvars, fvars, res, bus,
                   lastSleep>>

\* lines 353, 356
FcInitClock ==
    /\ pc = "fc_t0"
    /\ ReadClock
    /\ CallRead(REG_RAWDATA_GRAB_STATUS, 1, "fc_status")
    /\ UNCHANGED <<cfg, csLine, constructed, op, wvars, bvars, ret,
                   svars, ovars, timeout, mvars, fvars, res, bus,
                   lastSleep>>

\* lines 357-358, 363
FcTrigger ==
    /\ pc = "fc_status"
    /\ BitAnd(Value(ret), 192) # 0
    /\ CallWrite(REG_RAWDATA_GRAB, 0, "fc_t1")
    /\ ret' = None
    /\ UNCHANGED <<cfg, csLine, constructed, op, rvars, bvars,
                   svars, ovars, tvars, now, mvars, fvars, res, bus,
                   lastSleep>>

\* lines 357, 360 false, 356
FcPollAgain ==
    /\ pc = "fc_status"
    /\ BitAnd(Value(ret), 192) = 0
    /\ ~(now - t_start > timeout)
    /\ CallRead(REG_RAWDATA_GRAB_STATUS, 1, "fc_status")
    /\ ret' = None
    /\ UNCHANGED <<cfg, csLine, constructed, op, wvars, bvars,
                   svars, ovars, tvars, now, mvars, fvars, res, bus,
                   lastSleep>>

\* lines 357, 360-361
FcInitTimeout ==
    /\ pc = "fc_status"
    /\ BitAnd(Value(ret), 192) = 0
    /\ now - t_start > timeout
    /\ Raise("RuntimeError: Frame capture init timed out")
    /\ UNCHANGED <<cfg, csLine, constructed, bus, lastSleep>>

\* lines 365-369, 372
FcStream ==
    /\ pc = "fc_t1"
    /\ ReadClock
    /\ raw_data' = EmptyFrame
    /\ fc_x' = 0
    /\ fc_uppers' = 0
    /\ CallRead(REG_RAWDATA_GRAB, 1, "fc_decode")
    /\ UNCHANGED <<cfg, csLine, constructed, op, wvars, bvars, ret,
                   svars, ovars, timeout, mvars, res, bus, lastSleep>>

\* lines 373-375: raw_data after an upper fragment d
StoreUpper(raw, x, d) ==
    SetPixel(raw, x,
        BitOr(BitClear(PixelAt(raw, x), 252), Shl(BitAnd(d, 63), 2)))

\* a lower fragment read from its bits 1:0: FragmentsAssemblePixel tells it
\* from lines 376-378
StoreLowerLowBits(raw, x, d) ==
    SetPixel(raw, x,
        BitOr(BitClear(PixelAt(raw, x), 3), BitAnd(d, 3)))

\* lines 376-378: raw_data after a lower fragment d
StoreLower(raw, x, d) ==
    SetPixel(raw, x,
        BitOr(BitClear(PixelAt(raw, x), 3), Shr(BitAnd(d, 12), 2)))

\* an index that every fragment advances: PixelIndexDiscipline tells it from
\* lines 373-379
DecodedFrameEager(raw, x, d) ==
    LET r1 == IF BitAnd(d, 192) = 64 THEN StoreUpper(raw, x, d) ELSE raw
        r2 == IF BitAnd(d, 192) = 128 THEN StoreLower(r1, x, d) ELSE r1
        x2 == IF BitAnd(d, 192) \in {64, 128} THEN x + 1 ELSE x
    IN  [raw_data |-> r2, x |-> x2]

\* lines 373-379: raw_data and x after the byte d
DecodedFrame(raw, x, d) ==
    LET r1 == IF BitAnd(d, 192) = 64 THEN StoreUpper(raw, x, d) ELSE raw
        r2 == IF BitAnd(d, 192) = 128 THEN StoreLower(r1, x, d) ELSE r1
        x2 == IF BitAnd(d, 192) = 128 THEN x + 1 ELSE x
    IN  [raw_data |-> r2, x |-> x2]

\* the monitor's count after the byte d: an upper fragment (line 373) adds
\* one, a lower fragment (line 376) starts the next pixel
UppersAfter(n, d) ==
    CASE BitAnd(d, 192) = 64  -> Min(n + 1, 2)
      [] BitAnd(d, 192) = 128 -> 0
      [] OTHER                -> n

\* lines 373-381, x == RAW_DATA_LEN
FcReturn ==
    /\ pc = "fc_decode"
    /\ DecodedFrame(raw_data, fc_x, Value(ret)).x = RAW_DATA_LEN
    /\ Return(FrameList(DecodedFrame(raw_data, fc_x, Value(ret)).raw_data))
    /\ raw_data' = EmptyFrame
    /\ fc_x' = 0
    /\ fc_uppers' = 0
    /\ UNCHANGED <<cfg, csLine, constructed, op, wvars, rvars, bvars,
                   svars, ovars, tvars, now, mvars, res, bus, lastSleep>>

\* lines 373-383, neither complete nor late, and line 372 again
FcNext ==
    /\ pc = "fc_decode"
    /\ DecodedFrame(raw_data, fc_x, Value(ret)).x # RAW_DATA_LEN
    /\ ~(now - t_start > timeout)
    /\ raw_data' = DecodedFrame(raw_data, fc_x, Value(ret)).raw_data
    /\ fc_x' = DecodedFrame(raw_data, fc_x, Value(ret)).x
    /\ fc_uppers' = UppersAfter(fc_uppers, Value(ret))
    /\ ret' = None
    /\ CallRead(REG_RAWDATA_GRAB, 1, "fc_decode")
    /\ UNCHANGED <<cfg, csLine, constructed, op, wvars, bvars,
                   svars, ovars, tvars, now, mvars, res, bus, lastSleep>>

\* lines 373-383, late
FcTimeout ==
    /\ pc = "fc_decode"
    /\ DecodedFrame(raw_data, fc_x, Value(ret)).x # RAW_DATA_LEN
    /\ now - t_start > timeout
    /\ RaiseGot("RuntimeError: Raw data capture timeout, got {x} values",
                DecodedFrame(raw_data, fc_x, Value(ret)).x)
    /\ UNCHANGED <<cfg, csLine, constructed, bus, lastSleep>>

\* every step but the transfer of _write
Driver ==
    \/ WriteCsLow \/ WriteCsHigh
    \/ ReadCsLow \/ ReadXfer \/ ReadXferFails \/ ReadCsHigh
    \/ BulkWait \/ BulkWrite \/ BulkDone
    \/ InitCsLow \/ InitCsHigh \/ InitReset \/ InitSleep \/ InitFlush
    \/ InitSauce \/ InitGetId \/ InitCheckFails \/ InitDone \/ GetId
    \/ SaucePrologue \/ SauceRead67 \/ SauceBranchASet \/ SauceBranchAClear
    \/ SauceMid \/ SauceRead73 \/ SauceReadC1 \/ SauceSkipB \/ SauceReadC2
    \/ SauceAdjust \/ SauceWrite70 \/ SauceWrite71 \/ SauceTail
    \/ SauceReturn
    \/ ReturnToCaller
    \/ CallGetId \/ CallSetRotation \/ CallSetOrientation
    \/ SetRotation \/ SetRotationRaises \/ SetOrientation
    \/ CallGetMotion \/ GmStart \/ GmLoop \/ GmTimeout \/ GmCsLow \/ GmXfer
    \/ GmXferFails \/ GmCsHigh \/ GmReturn \/ GmRetry
    \/ CallGetMotionSlow \/ GsStart \/ GsLoop \/ GsTimeout \/ GsReturn
    \/ GsRetry
    \/ CallFrameCapture \/ FcConfig \/ FcInitClock \/ FcTrigger
    \/ FcPollAgain \/ FcInitTimeout \/ FcStream \/ FcReturn
    \/ FcNext \/ FcTimeout

Next == WriteXfer \/ WriteXferFails \/ Driver

Spec == Init /\ [][Next]_vars

\* ------------------------------------------------------------------------
\* Round trip of _write and _read against a simulated transport: it stores
\* the second byte of a write transaction under the first byte with bit 7
\* cleared, and answers a read transaction with what it stores under the
\* first byte (0 if nothing)
\* ------------------------------------------------------------------------
TestAddrs == 0 .. 127

TestValues == 0 .. 255

\* a constructed, idle object: the state that InitDone leaves
SimInit ==
    /\ variant \in {"PMW3901", "PAA5100"}
    /\ csGpio \in BOOLEAN
    /\ mem = NoRegisters
    /\ probe = <<>>
    /\ sent = <<>>
    /\ bank = -1
    /\ fcAborted = FALSE
    /\ csLine = 1
    /\ constructed = TRUE
    /\ op = ""
    /\ pc = "idle"
    /\ stack = <<>>
    /\ wreg = (IF variant = "PAA5100" THEN 115 ELSE 127) /\ wval = 0
    /\ rreg = 0 /\ rlen = 0 /\ rx = 0 /\ result = <<>> /\ rvalue = <<>>
    /\ bw_data = <<>> /\ bw_x = 0
    /\ ret = None
    /\ offset = 0 /\ c1 = 0 /\ c2 = 0
    /\ t_start = -1 /\ timeout = 0 /\ now = 0
    /\ degrees = 0 /\ invert_x = FALSE /\ invert_y = FALSE /\ swap_xy = FALSE
    /\ gm_data = <<>>
    /\ raw_data = EmptyFrame /\ fc_x = 0 /\ fc_uppers = 0
    /\ outcome = "ok" /\ got = -1 /\ retval = None
    /\ lastTx = <<1, 0>>
    /\ \E b \in BOOLEAN : nTx = 8 + CalibrationLength(variant, b)
    /\ lastSleep = IF variant = "PAA5100" THEN 10 ELSE 240
    /\ obs = Unobserved

\* the test calls dev._write(addr, value)
SimCallWrite ==
    /\ pc = "idle"
    /\ probe = <<>>
    /\ \E a \in TestAddrs, v \in TestValues :
          /\ probe' = <<a, v>>
          /\ CallWrite(a, v, "sim_read")
    /\ op' = "_write"
    /\ lastTx' = <<>>
    /\ nTx' = 0
    /\ UNCHANGED <<variant, csGpio, mem, sent, bank, fcAborted,
                   csLine, constructed, rvars, bvars,
                   ret, svars, tvars, now, ovars, mvars, fvars, res,
                   lastSleep>>

SimWriteXfer ==
    /\ pc = "w_xfer"
    /\ lastTx' = WireWrite(wreg, wval)
    /\ nTx' = Counted(nTx)
    /\ mem' = LET tx == WireWrite(wreg, wval)
                  a  == BitClear(tx[1], 128)
              IN  [r \in DOMAIN mem \cup {a} |->
                      IF r = a THEN tx[2] ELSE mem[r]]
    /\ IF csGpio
       THEN pc' = "w_cs_high" /\ UNCHANGED <<stack, ret>>
       ELSE Return(None)
    /\ UNCHANGED <<variant, csGpio, probe, sent, bank, fcAborted,
                   csLine, constructed, op, wvars,
                   rvars, bvars, svars, tvars, now, ovars, mvars, fvars, res,
                   lastSleep>>

\* the test calls dev._read(addr)
SimCallRead ==
    /\ pc = "sim_read"
    /\ CallRead(probe[1], 1, "sim_done")
    /\ op' = "_read"
    /\ UNCHANGED <<cfg, csLine, constructed, wvars, bvars, ret, svars,
                   tvars, now, ovars, mvars, fvars, res, bus, lastSleep>>

SimReadXfer ==
    /\ pc = "r_xfer"
    /\ lastTx' = WireRead(rreg, rx)
    /\ nTx' = Counted(nTx)
    /\ LET tx == WireRead(rreg, rx)
           b  == IF tx[1] \in DOMAIN mem THEN mem[tx[1]] ELSE 0
       IN  IF csGpio
           THEN /\ rvalue' = <<0, b>>
                /\ pc' = "r_cs_high"
                /\ UNCHANGED <<rreg, rlen, rx, result, stack, ret>>
           ELSE ReadStore(<<0, b>>)
    /\ UNCHANGED <<cfg, csLine, constructed, op, wvars, bvars, svars, tvars,
                   now, ovars, mvars, fvars, res, lastSleep>>

\* the test holds what _read returned
SimDone ==
    /\ pc = "sim_done"
    /\ pc' = "sim_end"
    /\ op' = ""
    /\ retval' = ret
    /\ ret' = None
    /\ UNCHANGED <<cfg, csLine, constructed, stack, wvars, rvars, bvars,
                   svars, tvars, now, ovars, mvars, fvars, outcome, got, bus,
                   lastSleep>>

SimNext ==
    \/ SimCallWrite \/ WriteCsLow \/ SimWriteXfer \/ WriteCsHigh
    \/ SimCallRead \/ ReadCsLow \/ SimReadXfer \/ ReadCsHigh
    \/ SimDone

SimSpec == SimInit /\ [][SimNext]_vars

\* ------------------------------------------------------------------------
\* _bulk_write on a recording transport: a test hands it a list of its own
\* and the transport keeps every transaction it is handed
\* ------------------------------------------------------------------------
MaxPairs == 3

\* the pairs of the lists: a WAIT, a register of bank-select kind and a
\* plain register, each with two values
PlayerPairs == {WAIT, 16, 127} \X {0, 10}

\* every list of at most MaxPairs pairs, flat as _bulk_write takes it
PlayerLists ==
    UNION { { [i \in 1 .. 2 * n |-> f[(i + 1) \div 2][IF i % 2 = 1 THEN 1 ELSE 2]] :
                f \in [1 .. n -> PlayerPairs] } : n \in 0 .. MaxPairs }

\* the test calls dev._bulk_write(list)
PlayerCall ==
    /\ pc = "idle"
    /\ outcome = "ok"
    /\ sent = <<>>
    /\ \E list \in PlayerLists :
          /\ probe' = list
          /\ CallBulk(list, "player_done")
    /\ op' = "_bulk_write"
    /\ lastTx' = <<>>
    /\ nTx' = 0
    /\ lastSleep' = 0
    /\ UNCHANGED <<variant, csGpio, mem, sent, bank, fcAborted,
                   csLine, constructed, wvars,
                   rvars, ret, svars, tvars, now, ovars, mvars, fvars, res>>

PlayerWriteXfer ==
    /\ pc = "w_xfer"
    /\ lastTx' = WireWrite(wreg, wval)
    /\ nTx' = Counted(nTx)
    /\ sent' = Append(sent, WireWrite(wreg, wval))
    /\ IF csGpio
       THEN pc' = "w_cs_high" /\ UNCHANGED <<stack, ret>>
       ELSE Return(None)
    /\ UNCHANGED <<variant, csGpio, mem, probe, bank, fcAborted,
                   csLine, constructed, op,
                   wvars, rvars, bvars, svars, tvars, now, ovars, mvars,
                   fvars, res, lastSleep>>

\* the recording transport raises OSError on the transaction it is handed
PlayerWriteXferFails ==
    /\ pc = "w_xfer"
    /\ lastTx' = WireWrite(wreg, wval)
    /\ nTx' = Counted(nTx)
    /\ sent' = Append(sent, WireWrite(wreg, wval))
    /\ Raise("OSError")
    /\ UNCHANGED <<variant, csGpio, mem, probe, bank, fcAborted,
                   csLine, constructed,
                   lastSleep>>

\* _bulk_write has returned to the test
PlayerDone ==
    /\ pc = "player_done"
    /\ pc' = "player_end"
    /\ op' = ""
    /\ retval' = ret
    /\ ret' = None
    /\ UNCHANGED <<cfg, csLine, constructed, stack, wvars, rvars, bvars,
                   svars, tvars, now, ovars, mvars, fvars, outcome, got, bus,
                   lastSleep>>

PlayerNext ==
    \/ PlayerCall \/ BulkWait \/ BulkWrite \/ BulkDone
    \/ WriteCsLow \/ PlayerWriteXfer \/ PlayerWriteXferFails \/ WriteCsHigh
    \/ PlayerDone

PlayerSpec == SimInit /\ [][PlayerNext]_vars

\* ------------------------------------------------------------------------
\* The driver on a bank-tracking transport: it remembers the value written
\* last to the bank-select register 0x7F, the reset write (line 55) standing
\* for a write of 0
\* ------------------------------------------------------------------------
\* the bank selected once the sensor has taken the write of v to register r
BankAfter(b, r, v) ==
    CASE r = 127                -> v
      [] r = REG_POWER_UP_RESET -> 0
      [] OTHER                  -> b

BankWriteXfer ==
    /\ pc = "w_xfer"
    /\ lastTx' = WireWrite(wreg, wval)
    /\ nTx' = Counted(nTx)
    /\ bank' = BankAfter(bank, wreg, wval)
    /\ \E d \in 0 .. MaxXferTime : Elapse(d)
    /\ IF csGpio
       THEN pc' = "w_cs_high" /\ UNCHANGED <<stack, ret>>
       ELSE Return(None)
    /\ UNCHANGED <<variant, csGpio, mem, probe, sent, fcAborted, csLine,
                   constructed, op, wvars, rvars, bvars, svars, tvars, ovars,
                   mvars, fvars, res, lastSleep>>

\* spi_dev.xfer2 raises OSError: the sensor may or may not have taken the
\* write
BankWriteXferFails ==
    /\ pc = "w_xfer"
    /\ lastTx' = WireWrite(wreg, wval)
    /\ nTx' = Counted(nTx)
    /\ bank' \in {bank, BankAfter(bank, wreg, wval)}
    /\ fcAborted' = (fcAborted \/ (op = "frame_capture" /\ Head(stack) = "bw_loop"))
    /\ Raise("OSError")
    /\ UNCHANGED <<variant, csGpio, mem, probe, sent, csLine, constructed,
                   lastSleep>>

BankNext == BankWriteXfer \/ BankWriteXferFails \/ Driver

BankSpec == Init /\ [][BankNext]_vars

\* where the thread stands: every step of a call moves it
position == <<pc, stack, csLine, rx, bw_x, offset, nTx, now>>

\* the scheduler: the one thread of the program keeps running
FairSpec == Spec /\ WF_position(Next)

\* the clock advances: of the transfers of a polling loop, which has no sleep,
\* some take time
CaptureFairSpec ==
    Spec /\ WF_position(Next) /\ SF_position(ReadXfer /\ now' > now)

\* ------------------------------------------------------------------------
\* Properties
\* ------------------------------------------------------------------------

\* C1: during construction the n-th bus transaction is fixed: the 1st is the
\* write of 0x5A to 0x3A, the 2nd to 6th are the single-byte reads of 0x02,
\* 0x03, 0x04, 0x05, 0x06, the next CalibrationLength ones are the
\* calibration (from its first prologue write to its last tail write, none
\* of them the reset write or a read of 0x00 or 0x01), the two after are the
\* reads of 0x00 and 0x01, and nothing follows; for either variant and every
\* answer of the sensor.
BringUpOrder ==
    op = "__init__" =>
        LET known == obs.r73 # -1
            cal   == CalibrationLength(variant, obs.r73 = 0)
            pro   == Prologue(variant)
            tail  == TailSeq(variant)
        IN  /\ nTx = 0 => lastTx = <<>>
            /\ nTx = 1 => lastTx = <<186, 90>>
            /\ nTx \in 2 .. 6 => lastTx = <<nTx, 0>>
            /\ nTx = 7 => lastTx = <<pro[1] + 128, pro[2]>>
            /\ (nTx >= 7 /\ (~known \/ nTx <= 6 + cal)) =>
                  /\ Len(lastTx) = 2
                  /\ lastTx # <<186, 90>>
                  /\ lastTx[1] \notin {0, 1}
            /\ ~known => nTx <= 6 + WritePairs(pro) + 2
                                 + WritePairs(MidSeq(variant)) + 1
            /\ (known /\ nTx = 6 + cal) =>
                  lastTx = <<tail[Len(tail) - 1] + 128, tail[Len(tail)]>>
            /\ (known /\ nTx = 7 + cal) => lastTx = <<0, 0>>
            /\ (known /\ nTx = 8 + cal) => lastTx = <<1, 0>>
            /\ known => nTx <= 8 + cal
            /\ pc \in {"init_check"} => (known /\ nTx = 8 + cal)
            /\ pc \in {"init_cs_low", "init_cs_high", "init_reset"} => nTx = 0
            /\ pc \in {"init_sleep"} => nTx = 1
            /\ pc \in {"init_flush"} => nTx = 1 + offset
            /\ pc \in {"init_get_id"} => (known /\ nTx = 6 + cal)

\* construction of a PAA5100 that took the 0x73 = 0 branch has issued every
\* transaction and stands before the identity check
BringUpOrderSeen ==
    /\ op = "__init__"
    /\ pc = "init_check"
    /\ variant = "PAA5100"
    /\ obs.r73 = 0
    /\ nTx = 8 + CalibrationLength("PAA5100", TRUE)
    /\ lastTx = <<1, 0>>

\* C2: construction succeeds exactly when the identity read gave product id
\* 0x49 and a revision of 0x00 or 0x01; otherwise it raises the invalid
\* identity error, no object exists, and no motion read or frame capture is
\* ever issued: these start only on a constructed object and nothing
\* happens after a failed construction.
IdentityGate ==
    [][ /\ pc = "init_check" =>
              /\ constructed' = (ret[1] = 73 /\ ret[2] \in {0, 1})
              /\ constructed' => (pc' = "idle" /\ outcome' = "ok")
              /\ ~constructed' =>
                    /\ pc' = "no_object"
                    /\ outcome' = "RuntimeError: Invalid Product ID or Revision"
        /\ pc # "init_check" => constructed' = constructed
        /\ pc # "no_object"
        /\ op' \in {"get_motion", "get_motion_slow", "frame_capture"} =>
              (constructed /\ constructed')
      ]_vars

\* a construction rejected by the identity check, after the whole bring-up
IdentityRejectedSeen ==
    /\ pc = "no_object"
    /\ ~constructed
    /\ outcome = "RuntimeError: Invalid Product ID or Revision"
    /\ lastTx = <<1, 0>>

\* C3: with a software chip-select line, the line is asserted (driven to 0)
\* at every transfer, and deasserted (1) in every state that is neither at a
\* transfer nor between a transfer and the set_pin that follows it, the
\* states after an operation ended included, whether its last transfer
\* completed or failed.  (The select pulse of lines 50-53 is left aside.)
ChipSelectFramesTransfers ==
    csGpio =>
        /\ pc \in {"w_xfer", "r_xfer", "gm_xfer"} => csLine = 0
        /\ pc \notin {"w_xfer", "r_xfer", "gm_xfer",
                      "w_cs_high", "r_cs_high", "gm_cs_high",
                      "init_cs_low", "init_cs_high"} => csLine = 1

\* C4: a transfer of _write puts exactly [register + 0x80, value] on the
\* wire, first byte in 0x80..0xFF; a transfer of _read puts exactly
\* [register + x, 0] on the wire, first byte in 0x00..0x7F, whatever
\* operation called it and for each byte of a multi-byte read; and the wire
\* sees a transaction only at these transfers and the motion burst.
WireFraming ==
    [][ /\ pc = "w_xfer" =>
              /\ Len(lastTx') = 2
              /\ wreg \in 0 .. 127
              /\ wval \in 0 .. 255
              /\ lastTx'[1] = wreg + 128
              /\ lastTx'[2] = wval
        /\ pc = "r_xfer" =>
              /\ Len(lastTx') = 2
              /\ lastTx'[1] = rreg + rx
              /\ lastTx'[1] \in 0 .. 127
              /\ lastTx'[2] = 0
        /\ (nTx' = nTx + 1 \/ lastTx' \notin {lastTx, <<>>}) =>
              pc \in {"w_xfer", "r_xfer", "gm_xfer"}
      ]_vars

\* the fifth byte of a slow motion read went out at the incremented address
WireFramingSeen ==
    /\ op = "get_motion_slow"
    /\ pc = "gs_check"
    /\ nTx = 5
    /\ lastTx = <<6, 0>>

\* C5: against the simulated transport, _write(addr, value) followed by
\* _read(addr) returns value, for every addr in 0..0x7F and value in 0..255.
RoundTrip ==
    pc = "sim_end" => (probe \in TestAddrs \X TestValues /\ retval = Scalar(probe[2]))

\* the round trip of the largest address and value
RoundTripSeen ==
    /\ pc = "sim_end"
    /\ probe = <<127, 255>>
    /\ retval = Scalar(255)
    /\ mem = (127 :> 255)

\* C6: get_motion returns from a sample exactly when its status byte has
\* bit 7 set and not (quality < 0x19 and shutter_upper = 0x1F), and then
\* returns that sample's deltas; any other sample is dropped and the call
\* goes on to the next attempt or the timeout.  get_motion_slow does the
\* same with the test "bit 7 of the first of the 5 bytes is set".  A motion
\* read returns from nowhere else, and the caller gets what was returned.
ReturnsFirstValidSample ==
    [][ /\ pc = "gm_check" =>
              LET valid == /\ gm_data[2] >= 128
                           /\ ~(gm_data[8] < 25 /\ gm_data[12] = 31)
              IN  /\ valid =>
                        /\ pc' = "caller"
                        /\ ret' = <<UnpackBurst(gm_data).x,
                                    UnpackBurst(gm_data).y>>
                  /\ ~valid => (pc' = "gm_loop" /\ ret' = None)
        /\ pc = "gs_check" =>
              /\ ret[1] >= 128 =>
                    /\ pc' = "caller"
                    /\ ret' = <<UnpackSlow(ret).x, UnpackSlow(ret).y>>
              /\ ret[1] < 128 => (pc' = "gs_loop" /\ ret' = None)
        /\ (op \in {"get_motion", "get_motion_slow"} /\ pc' = "caller") =>
              pc \in {"gm_check", "gs_check"}
        /\ (op \in {"get_motion", "get_motion_slow"} /\ pc = "caller") =>
              (retval' = ret /\ outcome' = "ok")
      ]_vars

\* get_motion dropped one sample and returned the deltas of the second
ReturnsFirstValidSampleSeen ==
    /\ op = "get_motion"
    /\ pc = "caller"
    /\ nTx = 2
    /\ ret = <<-32767, -254>>

\* C7: in get_motion and get_motion_slow the deadline (t_start, timeout) is
\* set once and kept through every retry while the clock only advances; a
\* sample without data-ready never makes the call return; the number of
\* transfers of a call is at most timeout (5 * timeout for the slow read)
\* in units of the 1 ms retry sleep, whatever the sensor answers; at the
\* deadline the call raises the timeout error; and every call ends.
MotionReadTerminates ==
    /\ [][ (op \in {"get_motion", "get_motion_slow"} /\ op' = op) =>
              /\ t_start >= 0 => (t_start' = t_start /\ now' >= now)
              /\ timeout' = timeout
              /\ (pc = "gm_check" /\ gm_data[2] < 128) => pc' = "gm_loop"
              /\ (pc = "gs_check" /\ ret[1] < 128) => pc' = "gs_loop"
              /\ pc' = "gm_check" => now' - t_start' >= nTx' - 1
              /\ pc' = "gs_check" => 5 * (now' - t_start') >= nTx' - 5
         ]_vars
    /\ [][ (pc \in {"gm_loop", "gs_loop"} /\ now - t_start >= timeout) =>
              /\ op' = ""
              /\ outcome' = "RuntimeError: Timed out waiting for motion data."
              /\ nTx' = nTx
         ]_vars
    /\ [](op = "get_motion" => nTx <= timeout)
    /\ [](op = "get_motion_slow" => nTx <= 5 * timeout)
    /\ (op \in {"get_motion", "get_motion_slow"}) ~> (op = "")

\* get_motion used its whole budget of attempts and timed out
MotionReadTerminatesSeen ==
    /\ pc = "idle"
    /\ outcome = "RuntimeError: Timed out waiting for motion data."
    /\ nTx = MaxTimeout
    /\ lastTx = WireBurst

\* C8: in the 0x73 = 0 branch of the calibration, for every byte r70 read
\* from 0x70 and r71 read from 0x71, the byte written back to 0x70 is
\* min(0x3F, r70 + 14) for r70 <= 14, min(0x3F, r70 + 25) for 15..28 and
\* min(0x3F, r70 + 11) above 28 (add 14 if <= 28, then add 11 if > 28,
\* clamp to 0..0x3F), the byte written back to 0x71 is (r71 * 45) div 100,
\* the first is in 0..0x3F and the second in 0..255; both variants alike.
CalibrationWriteBack ==
    op = "__init__" =>
        LET f(c) == IF c <= 14 THEN c + 14
                    ELSE IF c <= 28 THEN c + 25 ELSE c + 11
            w70  == IF f(obs.r70) > 63 THEN 63 ELSE f(obs.r70)
            w71  == (obs.r71 * 45) \div 100
        IN  /\ (obs.r70 # -1 /\ Len(lastTx) = 2 /\ lastTx[1] = 240) =>
                  (lastTx[2] = w70 /\ lastTx[2] \in 0 .. 63)
            /\ (obs.r71 # -1 /\ Len(lastTx) = 2 /\ lastTx[1] = 241) =>
                  (lastTx[2] = w71 /\ lastTx[2] \in 0 .. 255)
            /\ pc = "ss_write71" =>
                  (obs.r70 \in 0 .. 255 /\ lastTx = <<240, w70>>)
            /\ (pc = "ss_tail" /\ obs.r73 = 0) =>
                  (obs.r71 \in 0 .. 255 /\ lastTx = <<241, w71>>)

\* a PAA5100 read 0xFF from 0x70 and wrote back the clamped 0x3F
CalibrationWriteBackSeen ==
    /\ op = "__init__"
    /\ variant = "PAA5100"
    /\ pc = "ss_write71"
    /\ obs.r70 = 255
    /\ lastTx = <<240, 63>>

\* C9, as the source has it: the second test of c1 sees the value the first
\* one updated, so the calibration writes back 53 for c1 = 28 (28 + 14 = 42,
\* and 42 > 28 adds 11), 40 for c1 = 29, 0x3F for c1 = 0x50, 45 for c2 = 100
\* and 114 for c2 = 255.
CalibrationExamples ==
    (op = "__init__" /\ Len(lastTx) = 2) =>
        /\ (lastTx[1] = 240 /\ obs.r70 = 28) => lastTx[2] = 53
        /\ (lastTx[1] = 240 /\ obs.r70 = 29) => lastTx[2] = 40
        /\ (lastTx[1] = 240 /\ obs.r70 = 80) => lastTx[2] = 63
        /\ (lastTx[1] = 241 /\ obs.r71 = 100) => lastTx[2] = 45
        /\ (lastTx[1] = 241 /\ obs.r71 = 255) => lastTx[2] = 114

\* a PMW3901 read 28 from 0x70 and has written 53 back
CalibrationExamplesSeen ==
    /\ op = "__init__"
    /\ variant = "PMW3901"
    /\ pc = "ss_write71"
    /\ obs.r70 = 28
    /\ lastTx = <<240, 53>>

\* C9, as stated: the calibration writes back 42 for c1 = 28, 40 for
\* c1 = 29, 0x3F for c1 = 0x50, 45 for c2 = 100 and 114 for c2 = 255.
CalibrationExamplesAsStated ==
    (op = "__init__" /\ Len(lastTx) = 2) =>
        /\ (lastTx[1] = 240 /\ obs.r70 = 28) => lastTx[2] = 42
        /\ (lastTx[1] = 240 /\ obs.r70 = 29) => lastTx[2] = 40
        /\ (lastTx[1] = 240 /\ obs.r70 = 80) => lastTx[2] = 63
        /\ (lastTx[1] = 241 /\ obs.r71 = 100) => lastTx[2] = 45
        /\ (lastTx[1] = 241 /\ obs.r71 = 255) => lastTx[2] = 114

\* C10, as the source has it: an upper fragment (top bits 01) puts its low
\* six bits into bits 7:2 of the current pixel and keeps bits 1:0 and the
\* index; a lower fragment (top bits 10) keeps bits 7:2, puts bits 3:2 OF
\* THE FRAGMENT into bits 1:0 and advances the index.  So 0b01111111 then
\* 0b10000011 gives 0xFC, and 0b01111111 then 0b10001100 gives 0xFF.
FragmentsAssemblePixel ==
    [][ (pc = "fc_decode" /\ pc' \in {"r_cs_low", "r_xfer"}) =>
            LET d   == Value(ret)
                old == PixelAt(raw_data, fc_x)
                new == PixelAt(raw_data', fc_x)
            IN  /\ d \div 64 = 1 =>
                      /\ new = (d % 64) * 4 + (old % 4)
                      /\ fc_x' = fc_x
                /\ d \div 64 = 2 =>
                      /\ new = (old \div 4) * 4 + ((d \div 4) % 4)
                      /\ fc_x' = fc_x + 1
                /\ (d = 131 /\ old = 252) => new = 252
                /\ (d = 140 /\ old = 252) => new = 255
                /\ d = 127 => new \div 4 = 63
      ]_vars

\* pixel 0 was completed from 0b01111111 and 0b10001100
FragmentsAssemblePixelSeen ==
    /\ op = "frame_capture"
    /\ pc = "r_xfer"
    /\ fc_x = 1
    /\ PixelAt(raw_data, 0) = 255

\* C10, as stated: the low two bits of the stored pixel are the low two
\* bits of the lower fragment, so 0b01111111 then 0b10000011 gives
\* (0x3F << 2) | 0b11 = 0xFF.
FragmentsAssemblePixelLowBits ==
    [][ (pc = "fc_decode" /\ pc' \in {"r_cs_low", "r_xfer"}
                           /\ Value(ret) \div 64 = 2) =>
            LET d   == Value(ret)
                old == PixelAt(raw_data, fc_x)
                new == PixelAt(raw_data', fc_x)
            IN  /\ new = (old \div 4) * 4 + (d % 4)
                /\ (d = 131 /\ old = 252) => new = 255
      ]_vars

\* C11: while frame_capture streams, the index x starts at 0, lies in
\* 0..1224 whenever a fragment is stored under it, goes up by one on a byte
\* with top bits 10 and stays on every other byte; bytes with top bits 00
\* or 11 leave every pixel alone; the capture returns exactly at the step
\* that takes the index to 1225, and returns a list of 1225 bytes.
PixelIndexDiscipline ==
    /\ [](op = "frame_capture" =>
            /\ fc_x \in 0 .. (RAW_DATA_LEN - 1)
            /\ DOMAIN raw_data \subseteq 0 .. (RAW_DATA_LEN - 1))
    /\ [][ /\ pc = "fc_t1" => (fc_x' = 0 /\ raw_data' = EmptyFrame)
           /\ (op = "frame_capture" /\ pc \notin {"fc_t1", "fc_decode"}) =>
                 (fc_x' = fc_x \/ op' = "")
           /\ pc = "fc_decode" =>
                 LET top  == Value(ret) \div 64
                     next == IF top = 2 THEN fc_x + 1 ELSE fc_x
                 IN  /\ (pc' = "caller") = (next = 1225)
                     /\ pc' = "caller" =>
                           /\ top = 2
                           /\ fc_x = 1224
                           /\ DOMAIN ret' = 1 .. 1225
                           /\ \A i \in 1 .. 1225 : ret'[i] \in 0 .. 255
                     /\ pc' \in {"r_cs_low", "r_xfer"} =>
                           /\ fc_x' = next
                           /\ top \in {0, 3} => raw_data' = raw_data
                           /\ \A i \in 0 .. 1224 :
                                 i # fc_x =>
                                    PixelAt(raw_data', i) = PixelAt(raw_data, i)
         ]_vars

\* a capture returned its 1225 bytes, the first assembled from 0x7F and 0x8C
PixelIndexDisciplineSeen ==
    /\ op = "frame_capture"
    /\ pc = "caller"
    /\ DOMAIN ret = 1 .. 1225
    /\ ret[1] = 255
    /\ ret[1225] = 0

\* C12: in frame_capture the write of 0 to the grab register 0x58 is issued
\* only after the whole configuration list has gone out (its last
\* transaction, 0xFF to 0x58, is the last one the bus saw before the polling
\* began) and only after a read of the status register 0x59 whose bits 7 and
\* 6 are both set; a status with one of the two bits set starts nothing.
TriggerAfterBothReadyBits ==
    [][ /\ (op = "frame_capture" /\ pc = "fc_t0") =>
              lastTx = <<REG_RAWDATA_GRAB + 128, 255>>
        /\ (op = "frame_capture" /\ op' = op /\ wreg' = REG_RAWDATA_GRAB
              /\ wval' = 0 /\ <<wreg, wval>> # <<wreg', wval'>>) =>
              /\ pc = "fc_status"
              /\ lastTx = <<REG_RAWDATA_GRAB_STATUS, 0>>
              /\ Value(ret) \div 64 = 3
        /\ (pc = "fc_status" /\ Value(ret) \div 64 \in {1, 2}) =>
              pc' \notin {"w_cs_low", "w_xfer"}
      ]_vars

\* the part of C12 that lines 337-363 keep: the trigger follows the complete
\* configuration and a status read with bit 7 or bit 6 set
TriggerAfterConfiguration ==
    [][ /\ (op = "frame_capture" /\ pc = "fc_t0") =>
              lastTx = <<REG_RAWDATA_GRAB + 128, 255>>
        /\ (op = "frame_capture" /\ op' = op /\ wreg' = REG_RAWDATA_GRAB
              /\ wval' = 0 /\ <<wreg, wval>> # <<wreg', wval'>>) =>
              /\ pc = "fc_status"
              /\ lastTx = <<REG_RAWDATA_GRAB_STATUS, 0>>
              /\ Value(ret) \div 64 \in {1, 2, 3}
      ]_vars

\* C13: for every list of pairs handed to _bulk_write, the transactions the
\* transport has been handed when the loop stands before pair k are the
\* writes of the non-WAIT pairs among the first k - 1, in list order, each
\* with its pair's register (bit 7 set) and value; a WAIT pair hands the
\* transport nothing and sleeps its value; when the call returns the whole
\* list has been played; a transaction that fails is the last one.
SequencePlayerWrites ==
    /\ [](LET Pairs(list) == [k \in 1 .. Len(list) \div 2 |->
                                  <<list[2 * k - 1], list[2 * k]>>]
              NotWait(p)  == p[1] # WAIT
              Written(list) ==
                  [k \in 1 .. Len(SelectSeq(Pairs(list), NotWait)) |->
                      <<SelectSeq(Pairs(list), NotWait)[k][1] + 128,
                        SelectSeq(Pairs(list), NotWait)[k][2]>>]
          IN  /\ pc = "bw_loop" =>
                    /\ bw_x % 2 = 0
                    /\ bw_x <= Len(probe)
                    /\ bw_data = probe
                    /\ sent = Written(SubSeq(probe, 1, bw_x))
              /\ pc \in {"player_done", "player_end"} =>
                    (sent = Written(probe) /\ nTx = Len(sent))
              /\ outcome = "OSError" =>
                    \E k \in 1 .. Len(probe) \div 2 :
                        /\ probe[2 * k - 1] # WAIT
                        /\ sent = Written(SubSeq(probe, 1, 2 * k)))
    /\ [][ /\ (pc = "bw_loop" /\ bw_x < Len(probe)
                 /\ probe[bw_x + 1] = WAIT) =>
                 /\ sent' = sent /\ nTx' = nTx /\ pc' = "bw_loop"
                 /\ bw_x' = bw_x + 2
                 /\ lastSleep' = probe[bw_x + 2]
           /\ (pc = "bw_loop" /\ bw_x < Len(probe)
                 /\ probe[bw_x + 1] # WAIT) =>
                 /\ pc' \in {"w_cs_low", "w_xfer"}
                 /\ bw_x' = bw_x + 2
                 /\ <<wreg', wval'>> = <<probe[bw_x + 1], probe[bw_x + 2]>>
           /\ (pc = "bw_loop" /\ pc' = "player_done") => bw_x = Len(probe)
         ]_vars

SequencePlayerWritesSeen ==
    /\ pc = "player_end"
    /\ probe = <<16, 10, WAIT, 10, 127, 0>>
    /\ sent = << <<144, 10>>, <<255, 0>> >>
    /\ lastSleep = 10

\* C14: set_rotation with degrees outside {0, 90, 180, 270} ends in the
\* TypeError with no transaction issued; with degrees 0, 90, 180, 270 it
\* issues exactly one transaction, the write to the orientation register
\* 0x5B of the bytes 0xE0, 0x40, 0x80, 0x20 (pairwise distinct), and the
\* byte written by set_rotation and set_orientation alike is
\* 128 * swap_xy + 64 * invert_y + 32 * invert_x.
RotationBytes ==
    /\ [](op \in {"set_rotation", "set_orientation"} =>
            /\ nTx <= 1
            /\ pc = "caller" => nTx = 1
            /\ nTx = 1 =>
                  /\ lastTx[1] = 128 + 91
                  /\ lastTx[1] = 128 + REG_ORIENTATION
                  /\ lastTx[2] = 128 * (IF swap_xy THEN 1 ELSE 0)
                                 + 64 * (IF invert_y THEN 1 ELSE 0)
                                 + 32 * (IF invert_x THEN 1 ELSE 0)
                  /\ op = "set_rotation" =>
                        /\ degrees \in {0, 90, 180, 270}
                        /\ lastTx[2] = CASE degrees = 0   -> 224
                                         [] degrees = 90  -> 64
                                         [] degrees = 180 -> 128
                                         [] degrees = 270 -> 32)
    /\ [][ /\ (op = "set_rotation" /\ degrees \notin {0, 90, 180, 270}) =>
                /\ pc = "set_rotation"
                /\ nTx = 0 /\ nTx' = 0 /\ lastTx' = <<>>
                /\ op' = "" /\ pc' = "idle"
                /\ outcome' = "TypeError: Degrees must be one of 0, 90, 180 or 270"
           /\ (op = "set_rotation" /\ outcome' \notin {"running", "ok", "OSError"}) =>
                degrees \notin {0, 90, 180, 270}
         ]_vars

RotationBytesSeen ==
    /\ op = "set_rotation"
    /\ pc = "caller"
    /\ degrees = 270
    /\ lastTx = <<219, 32>>
    /\ nTx = 1

\* C15: in frame_capture a byte with top bits 10 completes the current
\* pixel (the index advances, or the capture returns at the last pixel)
\* only when exactly one byte with top bits 01 was read since that pixel
\* became the current one; a lower fragment with no upper fragment before it
\* completes nothing.
FragmentsAlternate ==
    [][ (pc = "fc_decode" /\ Value(ret) \div 64 = 2) =>
            /\ (fc_x' = fc_x + 1 \/ pc' = "caller") => fc_uppers = 1
            /\ (fc_uppers = 0 /\ pc' \in {"r_cs_low", "r_xfer"}) => fc_x' = fc_x
      ]_vars

\* C16: every attempt of get_motion hands the bus one transaction of 13
\* bytes, 0x16 and twelve zeros, and the 13 bytes answered are taken as:
\* byte 0 unused, byte 1 the status (bit 7 data-ready), byte 2 the
\* observation byte, bytes 3-4 deltaX and bytes 5-6 deltaY as little-endian
\* signed 16-bit integers, byte 7 quality, bytes 8, 9, 10 rawSum, rawMax,
\* rawMin, byte 11 shutterUpper, byte 12 shutterLower; the deltas returned
\* are those two integers, within -32768 .. 32767.
BurstLayout ==
    /\ [](pc = "gm_check" =>
            LET b(i) == gm_data[i + 1]
                s16(lo, hi) == IF lo + 256 * hi >= 32768
                               THEN lo + 256 * hi - 65536
                               ELSE lo + 256 * hi
                s == UnpackBurst(gm_data)
            IN  /\ Len(gm_data) = 13
                /\ Len(lastTx) = 13
                /\ lastTx[1] = 22
                /\ \A i \in 2 .. 13 : lastTx[i] = 0
                /\ s.dr = b(1) /\ s.obs = b(2)
                /\ s.x = s16(b(3), b(4)) /\ s.y = s16(b(5), b(6))
                /\ s.quality = b(7)
                /\ s.raw_sum = b(8) /\ s.raw_max = b(9) /\ s.raw_min = b(10)
                /\ s.shutter_upper = b(11) /\ s.shutter_lower = b(12)
                /\ \A lo \in {0, 1, 127, 128, 255}, hi \in {0, 1, 127, 128, 255} :
                      /\ Int16LE(lo, hi) \in -32768 .. 32767
                      /\ (Int16LE(lo, hi) - (lo + 256 * hi)) % 65536 = 0
                      /\ (Int16LE(lo, hi) < 0) = (hi >= 128))
    /\ [][ /\ pc = "gm_xfer" => (nTx' = nTx + 1 /\ Len(lastTx') = 13)
           /\ (op = "get_motion" /\ op' = op /\ pc # "gm_xfer") => nTx' = nTx
           /\ (pc = "gm_check" /\ pc' = "caller") =>
                LET b(i) == gm_data[i + 1]
                    s16(lo, hi) == IF lo + 256 * hi >= 32768
                                   THEN lo + 256 * hi - 65536
                                   ELSE lo + 256 * hi
                IN  /\ ret' = <<s16(b(3), b(4)), s16(b(5), b(6))>>
                    /\ ret'[1] \in -32768 .. 32767
                    /\ ret'[2] \in -32768 .. 32767
                    /\ b(1) >= 128
                    /\ ~(b(7) < 25 /\ b(11) = 31)
         ]_vars

BurstLayoutSeen ==
    /\ op = "get_motion"
    /\ pc = "caller"
    /\ lastTx = <<22, 0, 0, 0, 0, 0, 0, 0, 0, 0, 0, 0, 0>>
    /\ ret = <<-32513, 2>>

\* C16 as stated: deltaX is the integer of the two bytes right after the
\* status byte (bytes 2-3), deltaY that of bytes 4-5, and the deltas
\* returned are those.
BurstLayoutAsStated ==
    [][ (pc = "gm_check" /\ pc' = "caller") =>
            LET b(i) == gm_data[i + 1]
                s16(lo, hi) == IF lo + 256 * hi >= 32768
                               THEN lo + 256 * hi - 65536
                               ELSE lo + 256 * hi
            IN  ret' = <<s16(b(2), b(3)), s16(b(4), b(5))>>
      ]_vars

\* C17: the k-th transaction of the calibration is fixed by the bytes read
\* before it, for either variant: the prologue writes; the read of 0x67;
\* one write to 0x48, of 0x04 if that read had bit 7 set and of 0x02 if not;
\* the mid-sequence writes; the read of 0x73; then, if and only if that read
\* gave 0x00, the reads of 0x70 and 0x71, the intermediate writes and the
\* writes to 0x70 and to 0x71; then every write of the tail, in list order,
\* after which the calibration returns.
CalibrationBranches ==
    /\ [](op = "__init__" =>
            LET Pairs(list) == [i \in 1 .. Len(list) \div 2 |->
                                    <<list[2 * i - 1], list[2 * i]>>]
                NotWait(p)  == p[1] # WAIT
                Writes(list) ==
                    [i \in 1 .. Len(SelectSeq(Pairs(list), NotWait)) |->
                        <<SelectSeq(Pairs(list), NotWait)[i][1] + 128,
                          SelectSeq(Pairs(list), NotWait)[i][2]>>]
                pro  == Writes(Prologue(variant))
                mid  == Writes(MidSeq(variant))
                int  == Writes(Intermediate(variant))
                tail == Writes(TailSeq(variant))
                k    == nTx - 6
                a    == Len(pro) + 2
                b    == a + Len(mid) + 1
                c    == IF obs.r73 = 0 THEN b + 2 + Len(int) + 2 ELSE b
            IN  /\ k \in 1 .. Len(pro) => lastTx = pro[k]
                /\ k = a - 1 => lastTx = <<103, 0>>
                /\ k = a =>
                      /\ obs.r67 \in 0 .. 255
                      /\ lastTx = <<72 + 128, IF obs.r67 >= 128 THEN 4 ELSE 2>>
                /\ k \in (a + 1) .. (b - 1) => lastTx = mid[k - a]
                /\ k = b => lastTx = <<115, 0>>
                /\ k > b => obs.r73 \in 0 .. 255
                /\ (k > b /\ obs.r73 = 0) =>
                      /\ k = b + 1 => lastTx = <<112, 0>>
                      /\ k = b + 2 => lastTx = <<113, 0>>
                      /\ k \in (b + 3) .. (b + 2 + Len(int)) =>
                            lastTx = int[k - b - 2]
                      /\ k = c - 1 => (Len(lastTx) = 2 /\ lastTx[1] = 112 + 128)
                      /\ k = c => (Len(lastTx) = 2 /\ lastTx[1] = 113 + 128)
                /\ (k > c /\ obs.r73 # -1 /\ k <= c + Len(tail)) =>
                      lastTx = tail[k - c]
                /\ pc \in {"ss_ret", "init_get_id"} =>
                      (obs.r73 # -1 /\ k = c + Len(tail))
                /\ pc = "ss_mid" => k = a
                /\ pc = "ss_tail" => (obs.r73 # -1 /\ k = c))
    /\ [][ /\ pc = "ss_branchA" =>
                /\ lastTx = <<103, 0>>
                /\ wreg' = 72
                /\ wval' = IF Value(ret) \div 128 = 1 THEN 4 ELSE 2
                /\ obs'.r67 = Value(ret)
           /\ pc = "ss_branchB" =>
                /\ lastTx = <<115, 0>>
                /\ obs'.r73 = Value(ret)
                /\ (Value(ret) = 0) = (rreg' = 112 /\ pc' \in {"r_cs_low", "r_xfer"})
                /\ (Value(ret) # 0) = (pc' = "ss_tail")
         ]_vars

CalibrationBranchesSeen ==
    /\ op = "__init__"
    /\ variant = "PMW3901"
    /\ pc = "init_get_id"
    /\ obs.r67 = 128
    /\ obs.r73 = 1
    /\ nTx = 6 + CalibrationLength("PMW3901", FALSE)
    /\ lastTx = <<255, 0>>

\* C18: the deadline of frame_capture is counted from one reading of the
\* clock and never set back while the call runs, so the time spent since
\* that reading only grows; the call ends by returning the 1225 pixels, by
\* the init timeout raised from the status polling once the deadline has
\* passed, or by the capture timeout raised from the streaming once the
\* deadline has passed, which reports the pixel index reached, below 1225.
CaptureDeadlineKept ==
    [][ /\ (op = "frame_capture" /\ op' = op /\ t_start >= 0) =>
              now' - t_start' >= now - t_start
        /\ (op = "frame_capture" /\ op' = "" /\ outcome' # "OSError") =>
              \/ /\ pc = "caller"
                 /\ outcome' = "ok"
                 /\ Len(retval') = RAW_DATA_LEN
              \/ /\ pc = "fc_status"
                 /\ now - t_start > timeout
                 /\ outcome' = "RuntimeError: Frame capture init timed out"
              \/ /\ pc = "fc_decode"
                 /\ now - t_start > timeout
                 /\ outcome' = "RuntimeError: Raw data capture timeout, got {x} values"
                 /\ got' = (IF Value(ret) \div 64 = 2 THEN fc_x + 1 ELSE fc_x)
                 /\ got' \in 0 .. (RAW_DATA_LEN - 1)
      ]_vars

\* the part of C18 that lines 353-383 keep: how a frame_capture ends, and
\* that each of its two loops counts its deadline from one reading of the
\* clock
CaptureOutcomes ==
    [][ /\ (op = "frame_capture" /\ op' = op /\ t_start >= 0 /\ pc # "fc_t1") =>
              (t_start' = t_start /\ now' >= now)
        /\ (op = "frame_capture" /\ op' = "" /\ outcome' # "OSError") =>
              \/ /\ pc = "caller"
                 /\ outcome' = "ok"
                 /\ Len(retval') = RAW_DATA_LEN
              \/ /\ pc = "fc_status"
                 /\ now - t_start > timeout
                 /\ outcome' = "RuntimeError: Frame capture init timed out"
              \/ /\ pc = "fc_decode"
                 /\ now - t_start > timeout
                 /\ outcome' = "RuntimeError: Raw data capture timeout, got {x} values"
                 /\ got' = (IF Value(ret) \div 64 = 2 THEN fc_x + 1 ELSE fc_x)
                 /\ got' \in 0 .. (RAW_DATA_LEN - 1)
      ]_vars

\* the part of C18 that holds under CaptureFairSpec: every frame_capture
\* ends, whatever the sensor answers
CaptureTerminates == (op = "frame_capture") ~> (op = "")

\* C19: a transfer either completes, and the call goes on, or fails, and
\* then that very step ends the call in progress with the OSError: no
\* statement of the call runs after it, so no further transfer and no second
\* try; nothing but a failed transfer gives that outcome; until the caller
\* invokes a new method the bus stays silent; and a failure during __init__
\* leaves no object, for good.
FailurePropagates ==
    /\ [](/\ outcome = "OSError" =>
                /\ op = "" /\ stack = <<>>
                /\ pc = (IF constructed THEN "idle" ELSE "no_object")
                /\ Len(lastTx) \in {2, 13}
          /\ pc = "no_object" => (~constructed /\ op = ""))
    /\ [][ /\ pc \in {"w_xfer", "r_xfer", "gm_xfer"} =>
                \/ /\ op' = op /\ outcome' = outcome
                   /\ constructed' = constructed
                   /\ (pc' # pc \/ rx' = rx + 1)
                \/ /\ op' = "" /\ outcome' = "OSError"
                   /\ stack' = <<>>
                   /\ constructed' = constructed
                   /\ op = "__init__" => (~constructed' /\ pc' = "no_object")
                   /\ op # "__init__" => pc' = "idle"
                   /\ nTx' = Counted(nTx)
                   /\ lastTx' = CASE pc = "w_xfer"  -> <<wreg + 128, wval>>
                                  [] pc = "r_xfer"  -> <<rreg + rx, 0>>
                                  [] pc = "gm_xfer" -> <<22>> \o [i \in 1 .. 12 |-> 0]
           /\ (outcome' = "OSError" /\ outcome # "OSError") =>
                pc \in {"w_xfer", "r_xfer", "gm_xfer"}
           /\ outcome = "OSError" =>
                /\ pc = "idle"
                /\ op' \notin {"", "__init__"}
                /\ outcome' = "running"
                /\ nTx' = 0 /\ lastTx' = <<>>
         ]_vars

FailurePropagatesSeen ==
    /\ outcome = "OSError"
    /\ pc = "no_object"
    /\ ~constructed
    /\ nTx = 7
    /\ lastTx = <<255, 0>>

\* the part of C20 that the tables keep: on a transport that has failed no
\* frame_capture while its configuration list was being written, the bank
\* selected is 0 whenever
\* the driver is about to issue an access to a named register outside the
\* tables: a motion burst, a read of 0x00 .. 0x06 (identity, flush, slow
\* read), an access to 0x58 or 0x59, or the orientation write to 0x5B of
\* set_rotation and set_orientation; the reset write counts as selecting
\* bank 0; both variants, after any calls, timed out or not.
BankZeroAtNamedAccess ==
    ( /\ ~fcAborted
      /\ \/ pc = "gm_xfer"
         \/ pc = "r_xfer" /\ rreg + rx \in (0 .. 6) \cup {88, 89}
         \/ pc = "w_xfer" /\ wreg = 88
         \/ pc = "w_xfer" /\ wreg = 91
               /\ op \in {"set_rotation", "set_orientation"} )
    => bank = 0

\* a PAA5100 frame_capture has written its configuration list, through banks
\* 7 and 8, and is about to poll the status register in bank 0
BankZeroAtNamedAccessSeen ==
    /\ variant = "PAA5100"
    /\ op = "frame_capture"
    /\ pc = "r_xfer"
    /\ rreg = REG_RAWDATA_GRAB_STATUS
    /\ lastTx = <<216, 255>>
    /\ bank = 0
    /\ ~fcAborted

\* C20: taking the reset write as selecting bank 0, the bank selected is 0
\* whenever the driver is about to issue an access to a named register
\* outside the tables, for both variants and after any sequence of calls,
\* however they ended.
BankZeroAfterAnyCalls ==
    ( \/ pc = "gm_xfer"
      \/ pc = "r_xfer" /\ rreg + rx \in (0 .. 6) \cup {88, 89}
      \/ pc = "w_xfer" /\ wreg = 88
      \/ pc = "w_xfer" /\ wreg = 91
            /\ op \in {"set_rotation", "set_orientation"} )
    => bank = 0

====
